---- MODULE Spec2Model ----
(***************************************************************************)
(* State-machine model of the GGEMS OpenCL resource manager                *)
(* (src/src/global/opencl_manager.cc, include/GGEMS/global/ggems_manager.hh)*)
(* and of the GGEMSGeometryTransformation constructor/destructor pair that *)
(* allocates and releases one device buffer through it.                    *)
(*                                                                         *)
(* Indices: the C++ code indexes vectors from 0, TLA+ sequences from 1.    *)
(* Every index that is an input or a result of the code (context_id,       *)
(* GetGlobalContextID) is kept 0-based; At(v, i) reads v[i + 1].           *)
(***************************************************************************)
EXTENDS Integers, Sequences, FiniteSets, TLC

\* ------------------------------------------------------------------ bounds
\* Largest number of devices the backend reports.
MaxDevices == 2
\* Largest number of platforms the backend reports.
MaxPlatforms == 2
\* Largest number of device buffers alive at once.
MaxBuffers == 2
\* Largest number of kernels kept in the registry.
MaxKernels == 2
\* Largest magnitude of the statuses handed to the error decoder.
MaxStatus == 10000
\* Width, in bits, of the model's cl_ulong. The code's counter is 64 bits
\* wide; the model keeps the wrap-around arithmetic on a narrower word.
UlongBits == 8

UlongMod == 2 ^ UlongBits

\* --------------------------------------------------------- program constants
CL_SUCCESS == 0
CL_DEVICE_NOT_FOUND == -1
CL_MEM_OBJECT_ALLOCATION_FAILURE == -4
CL_OUT_OF_RESOURCES == -5
CL_OUT_OF_HOST_MEMORY == -6
CL_PROFILING_INFO_NOT_AVAILABLE == -7
CL_BUILD_PROGRAM_FAILURE == -11
CL_INVALID_CONTEXT == -34
CL_INVALID_COMMAND_QUEUE == -36
CL_INVALID_BUILD_OPTIONS == -43
CL_INVALID_PROGRAM == -44
CL_INVALID_KERNEL_NAME == -46
CL_INVALID_EVENT == -58
CL_PLATFORM_NOT_FOUND_KHR == -1001

\* sizeof(GGint).
SizeofGGint == 4

\* sizeof(GGDosiType): a float or a double, as the build chooses.
DosiSizes == {4, 8}

\* Numbers of voxels of the world.
VoxelCounts == {16}

\* sizeof(GGfloat44): sixteen 4-byte floats.
SizeofGGfloat44 == 16 * 4

\* Byte counts the callers ask for.
ByteSizes == {SizeofGGfloat44, 3 * SizeofGGfloat44}

\* What the backend answers to one CompileKernel call: the statuses of the
\* program creation, of the context query, of the build and of the kernel
\* creation, and the build log. All calls succeed, or one fails; the build
\* of a program that was not created fails with CL_INVALID_PROGRAM, and the
\* calls after a failed query or build are not made.
KernelStatuses ==
  {<<CL_SUCCESS, CL_SUCCESS, CL_SUCCESS, CL_SUCCESS, "">>,
   <<CL_OUT_OF_HOST_MEMORY, CL_SUCCESS, CL_INVALID_PROGRAM, CL_SUCCESS, "">>,
   <<CL_SUCCESS, CL_INVALID_CONTEXT, CL_SUCCESS, CL_SUCCESS, "">>,
   <<CL_SUCCESS, CL_SUCCESS, CL_BUILD_PROGRAM_FAILURE, CL_SUCCESS,
     "1:1: error: unknown type name 'kernl'">>,
   <<CL_SUCCESS, CL_SUCCESS, CL_INVALID_BUILD_OPTIONS, CL_SUCCESS, "">>,
   <<CL_SUCCESS, CL_SUCCESS, CL_SUCCESS, CL_INVALID_KERNEL_NAME, "">>}

\* Global memory sizes, in bytes, the backend may report for a device.
SmallMem == 256

LargeMem == 6400

MemSizes == {SmallMem, LargeMem}

\* A device whose Image3D sizes are all the same and whose native width is
\* its preferred width.
PlainDevice ==
  [CL_DEVICE_IMAGE3D_MAX_HEIGHT |-> 2048,
   CL_DEVICE_IMAGE3D_MAX_DEPTH |-> 2048,
   CL_DEVICE_NATIVE_VECTOR_WIDTH_CHAR |-> 16,
   CL_DEVICE_PREFERRED_VECTOR_WIDTH_CHAR |-> 16]

\* The capabilities the backend may report for a device: those of a plain
\* device, a larger Image3D depth, or a smaller native width.
DeviceInfos ==
  {PlainDevice,
   [PlainDevice EXCEPT !.CL_DEVICE_IMAGE3D_MAX_DEPTH = 8192],
   [PlainDevice EXCEPT !.CL_DEVICE_NATIVE_VECTOR_WIDTH_CHAR = 4]}

\* What an element of an array holds when nothing was written to it since
\* its allocation.
AllocatedContents == {0, 2048}

PlainContents == {2048}

\* Device types the backend may report for a device.
DeviceTypes ==
  {"CL_DEVICE_TYPE_CPU", "CL_DEVICE_TYPE_GPU", "CL_DEVICE_TYPE_ACCELERATOR"}

\* The null pointer, for buffer handles.
NullPtr == 0

\* sizeof(kernel_compilation_option): the array CompileKernel assembles the
\* option string in.
KernelOptionSize == 512

\* The macros whose definition at compile time adds to the build options.
Macros == {"GGEMS_FAST_MATH", "GGEMS_DOUBLE_PRECISION"}

\* A char* argument: the null pointer, or a pointer to a C string.
NullStr == <<>>

StrPtr(s) == <<s>>

Twice(s) == s \o s

\* An option string of exactly KernelOptionSize characters.
LongOptions == Twice(Twice(Twice(Twice(Twice("-DA=1 -DB=2 -w  ")))))

\* Option strings the callers pass: the two GGEMSWorld passes, and a long one.
OptionStrings == {"", "-DGGEMS_TRACKING", LongOptions}

OptionPointers == {NullStr} \cup {StrPtr(s) : s \in OptionStrings}

\* The arrays the constructor allocates with Memory::MemAlloc, in order.
ConstructorArrays ==
  <<"p_platform_vendor_",
    "p_device_device_type_",
    "p_device_vendor_",
    "p_device_version_",
    "p_device_driver_version_",
    "p_device_address_bits_",
    "p_device_available_",
    "p_device_compiler_available_",
    "p_device_global_mem_cache_size_",
    "p_device_global_mem_cacheline_size_",
    "p_device_global_mem_size_",
    "p_device_local_mem_size_",
    "p_device_mem_base_addr_align_",
    "p_device_name_",
    "p_device_opencl_c_version_",
    "p_device_printf_buffer_size_",
    "p_device_image_max_array_size_",
    "p_device_image_max_buffer_size_",
    "p_device_image_support_",
    "p_device_image_2d_max_w_",
    "p_device_image_2d_max_h_",
    "p_device_image_3d_max_w_",
    "p_device_image_3d_max_h_",
    "p_device_image_3d_max_d_",
    "p_device_max_clock_frequency_",
    "p_device_max_compute_units_",
    "p_device_constant_buffer_size_",
    "p_device_mem_alloc_size_",
    "p_device_max_read_image_args_",
    "p_device_max_write_image_args_",
    "p_device_parameter_size_",
    "p_device_samplers_",
    "p_device_workitem_dimensions_",
    "p_device_workgroup_size_",
    "p_device_workitem_size_",
    "p_device_platform_id_",
    "p_device_native_vector_width_char_",
    "p_device_preferred_vector_width_char_",
    "p_device_native_vector_width_int_",
    "p_device_preferred_vector_width_int_",
    "p_device_native_vector_width_long_",
    "p_device_preferred_vector_width_long_",
    "p_device_native_vector_width_short_",
    "p_device_preferred_vector_width_short_",
    "p_device_native_vector_width_half_",
    "p_device_preferred_vector_width_half_",
    "p_device_native_vector_width_float_",
    "p_device_preferred_vector_width_float_",
    "p_device_native_vector_width_double_",
    "p_device_preferred_vector_width_double_">>

\* The arrays the destructor passes to Memory::MemFree, in order, up to the
\* deletion of the objects.
DestructorArrays ==
  <<"p_platform_vendor_",
    "p_device_device_type_",
    "p_device_vendor_",
    "p_device_version_",
    "p_device_driver_version_",
    "p_device_address_bits_",
    "p_device_available_",
    "p_device_compiler_available_",
    "p_device_global_mem_cache_size_",
    "p_device_global_mem_cacheline_size_",
    "p_device_global_mem_size_",
    "p_device_local_mem_size_",
    "p_device_mem_base_addr_align_",
    "p_device_name_",
    "p_device_opencl_c_version_",
    "p_device_printf_buffer_size_",
    "p_device_image_max_array_size_",
    "p_device_image_max_buffer_size_",
    "p_device_image_support_",
    "p_device_image_2d_max_w_",
    "p_device_image_2d_max_h_",
    "p_device_image_3d_max_w_",
    "p_device_image_3d_max_h_",
    "p_device_image_3d_max_d_",
    "p_device_max_clock_frequency_",
    "p_device_max_compute_units_",
    "p_device_mem_alloc_size_",
    "p_device_max_read_image_args_",
    "p_device_max_write_image_args_",
    "p_device_parameter_size_",
    "p_device_samplers_",
    "p_device_workitem_dimensions_",
    "p_device_workgroup_size_",
    "p_device_workitem_size_",
    "p_device_platform_id_",
    "p_device_native_vector_width_char_",
    "p_device_preferred_vector_width_char_",
    "p_device_native_vector_width_int_",
    "p_device_preferred_vector_width_int_",
    "p_device_native_vector_width_long_",
    "p_device_preferred_vector_width_long_",
    "p_device_native_vector_width_short_",
    "p_device_preferred_vector_width_short_",
    "p_device_native_vector_width_half_",
    "p_device_preferred_vector_width_half_",
    "p_device_native_vector_width_float_",
    "p_device_preferred_vector_width_float_",
    "p_device_native_vector_width_double_",
    "p_device_preferred_vector_width_double_">>

\* Outcomes of reading the first element of an empty std::vector whose
\* storage was never allocated (a load through a null pointer): the plain
\* build is ended by a memory fault, a build with the standard library's
\* assertions enabled is ended by abort(). Neither raises an exception.
UBOutcomes == {"segfault", "abort"}

VARIABLES
  macros,                   \* build: the macros defined at compile time
  cl_platforms,             \* backend: the number of devices of each platform
  cl_devices,               \* backend: the type of each device it reports
  cl_global_mem_size,       \* backend: the global memory size of each device
  cl_device_info,           \* backend: the capabilities of each device
  allocated,                \* what a newly allocated array element holds
  freed,                    \* heap: the resources released so far, in order
  phase,                    \* "new", "ready", "failed" or "crashed"
  p_device_device_type_,    \* recorded device type per device
  p_device_global_mem_size_, \* recorded global memory size per device
  p_device_image_3d_max_h_, \* recorded Image3D max height per device
  p_device_image_3d_max_d_, \* recorded Image3D max depth per device
  p_device_native_vector_width_char_,    \* recorded native width per device
  p_device_preferred_vector_width_char_, \* recorded preferred width per device
  build_options_,           \* default build options
  vp_contexts_cl_,          \* global context list
  vp_contexts_cpu_cl_,      \* contexts on CPU devices
  vp_contexts_gpu_cl_,      \* contexts on GPU devices
  vp_contexts_act_cl_,      \* activated contexts
  vp_queues_cl_,            \* command queues
  vp_event_cl_,             \* events
  vp_kernel_cl_,            \* kernel registry
  p_used_ram_,              \* RAM ledger, one cl_ulong per context
  buffers,                  \* device buffers alive, as [id, size] records
  p_matrix_transformation_, \* buffer of the GGEMSGeometryTransformation object
  kernel_world_tracking_,   \* kernel of the GGEMSWorld object
  world_recording_,         \* buffers of the GGEMSWorld object
  last                      \* the last operation called and how it ended

backendVars ==
  <<macros, cl_platforms, cl_devices, cl_global_mem_size, cl_device_info,
    allocated, freed>>

deviceTables ==
  <<p_device_device_type_, p_device_global_mem_size_,
    p_device_image_3d_max_h_, p_device_image_3d_max_d_,
    p_device_native_vector_width_char_,
    p_device_preferred_vector_width_char_>>

moduleVars ==
  <<p_matrix_transformation_, kernel_world_tracking_, world_recording_>>

vars ==
  <<backendVars, phase, deviceTables, build_options_,
    vp_contexts_cl_,
    vp_contexts_cpu_cl_, vp_contexts_gpu_cl_, vp_contexts_act_cl_,
    vp_queues_cl_, vp_event_cl_, vp_kernel_cl_, p_used_ram_, buffers,
    moduleVars, last>>

managerVars ==
  <<deviceTables, build_options_, vp_contexts_cl_, vp_contexts_cpu_cl_,
    vp_contexts_gpu_cl_, vp_contexts_act_cl_, vp_queues_cl_, vp_event_cl_,
    vp_kernel_cl_, p_used_ram_>>

\* ------------------------------------------------------------------ helpers
\* Sequences over S of length at most n.
SeqsUpTo(S, n) == UNION {[1..k -> S] : k \in 0..n}

\* The sum of a sequence of numbers.
RECURSIVE Sum(_)
Sum(v) == IF v = <<>> THEN 0 ELSE Head(v) + Sum(Tail(v))

\* std::vector::at: the element at 0-based index i.
At(v, i) == v[i + 1]

\* Variant: the check rejects every index.
InRange_NoIndex(v, i) == FALSE

\* The bounds check of std::vector::at.
InRange(v, i) == i >= 0 /\ i < Len(v)

\* The record kept in `last`: operation, result ("ok", "throw" or "crash"),
\* what was raised, the backend status received, and the call's inputs.
\* calls lists the backend calls made and statuses the status each returned,
\* options is the option string handed to
\* the backend build, build_status and log are the build's status and log,
\* message is the text of the error raised, and ret is the position in the
\* registry of the kernel returned (NullPtr when none is).
\* pre is the active context's ledger entry before the call; paired says
\* that a Deallocate directly follows the successful Allocate of the same
\* buffer with the same size, and prior is then the entry before that
\* Allocate.
Outcome(op, res, err) ==
  [op |-> op, res |-> res, err |-> err, status |-> CL_SUCCESS,
   caller |-> "", arg |-> 0, buf |-> NullPtr, pre |-> 0,
   paired |-> FALSE, prior |-> 0,
   custom |-> FALSE, additional |-> FALSE, fileExists |-> FALSE,
   fileOpened |-> FALSE, calls |-> <<>>, options |-> "",
   p_custom_options |-> <<>>, p_additional_options |-> <<>>,
   build_status |-> CL_SUCCESS, log |-> "", message |-> "", ret |-> NullPtr,
   statuses |-> <<>>, report |-> <<>>]

\* Misc::ThrowException(class, method, message): raises; the call does not
\* return.
ThrowException == "throw"

\* Variant: every status falls to the default label.
ErrorType_DefaultOnly(error) == "\nUnknown OpenCL error\n"

\* ErrorType: the description of a backend status. Every description starts
\* with a line break and the line naming the status; the explanatory lines
\* that follow the name in the source are left out.
ErrorType(error) ==
  CASE error = -1 -> "\nCL_DEVICE_NOT_FOUND:\n"
    [] error = -2 -> "\nCL_DEVICE_NOT_AVAILABLE:\n"
    [] error = -3 -> "\nCL_COMPILER_NOT_AVAILABLE:\n"
    [] error = -4 -> "\nCL_MEM_OBJECT_ALLOCATION_FAILURE:\n"
    [] error = -5 -> "\nCL_OUT_OF_RESOURCES:\n"
    [] error = -6 -> "\nCL_OUT_OF_HOST_MEMORY:\n"
    [] error = -7 -> "\nCL_PROFILING_INFO_NOT_AVAILABLE:\n"
    [] error = -8 -> "\nCL_MEM_COPY_OVERLAP:\n"
    [] error = -9 -> "\nCL_IMAGE_FORMAT_MISMATCH:\n"
    [] error = -10 -> "\nCL_IMAGE_FORMAT_NOT_SUPPORTED:\n"
    [] error = -11 -> "\nCL_BUILD_PROGRAM_FAILURE:\n"
    [] error = -12 -> "\nCL_MAP_FAILURE:\n"
    [] error = -13 -> "\nCL_MISALIGNED_SUB_BUFFER_OFFSET:\n"
    [] error = -14 -> "\nCL_EXEC_STATUS_ERROR_FOR_EVENTS_IN_WAIT_LIST:\n"
    [] error = -15 -> "\nCL_COMPILE_PROGRAM_FAILURE:\n"
    [] error = -16 -> "\nCL_LINKER_NOT_AVAILABLE:\n"
    [] error = -17 -> "\nCL_LINK_PROGRAM_FAILURE:\n"
    [] error = -18 -> "\nCL_DEVICE_PARTITION_FAILED:\n"
    [] error = -19 -> "\nCL_KERNEL_ARG_INFO_NOT_AVAILABLE:\n"
    [] error = -30 -> "\nCL_INVALID_VALUE:\n"
    [] error = -31 -> "\nCL_INVALID_DEVICE_TYPE:\n"
    [] error = -32 -> "\nCL_INVALID_PLATFORM:\n"
    [] error = -33 -> "\nCL_INVALID_DEVICE:\n"
    [] error = -34 -> "\nCL_INVALID_CONTEXT:\n"
    [] error = -35 -> "\nCL_INVALID_QUEUE_PROPERTIES:\n"
    [] error = -36 -> "\nCL_INVALID_COMMAND_QUEUE:\n"
    [] error = -37 -> "\nCL_INVALID_HOST_PTR:\n"
    [] error = -38 -> "\nCL_INVALID_MEM_OBJECT:\n"
    [] error = -39 -> "\nCL_INVALID_IMAGE_FORMAT_DESCRIPTOR:\n"
    [] error = -40 -> "\nCL_INVALID_IMAGE_SIZE:\n"
    [] error = -41 -> "\nCL_INVALID_SAMPLER:\n"
    [] error = -42 -> "\nCL_INVALID_BINARY:\n"
    [] error = -43 -> "\nCL_INVALID_BUILD_OPTIONS:\n"
    [] error = -44 -> "\nCL_INVALID_PROGRAM:\n"
    [] error = -45 -> "\nCL_INVALID_PROGRAM_EXECUTABLE:\n"
    [] error = -46 -> "\nCL_INVALID_KERNEL_NAME:\n"
    [] error = -47 -> "\nCL_INVALID_KERNEL_DEFINITION:\n"
    [] error = -48 -> "\nCL_INVALID_KERNEL:\n"
    [] error = -49 -> "\nCL_INVALID_ARG_INDEX:\n"
    [] error = -50 -> "\nCL_INVALID_ARG_VALUE:\n"
    [] error = -51 -> "\nCL_INVALID_ARG_SIZE:\n"
    [] error = -52 -> "\nCL_INVALID_KERNEL_ARGS:\n"
    [] error = -53 -> "\nCL_INVALID_WORK_DIMENSION:\n"
    [] error = -54 -> "\nCL_INVALID_WORK_GROUP_SIZE:\n"
    [] error = -55 -> "\nCL_INVALID_WORK_ITEM_SIZE:\n"
    [] error = -56 -> "\nCL_INVALID_GLOBAL_OFFSET:\n"
    [] error = -57 -> "\nCL_INVALID_EVENT_WAIT_LIST:\n"
    [] error = -58 -> "\nCL_INVALID_EVENT:\n"
    [] error = -59 -> "\nCL_INVALID_OPERATION:\n"
    [] error = -60 -> "\nCL_INVALID_GL_OBJECT:\n"
    [] error = -61 -> "\nCL_INVALID_BUFFER_SIZE:\n"
    [] error = -62 -> "\nCL_INVALID_MIP_LEVEL:\n"
    [] error = -63 -> "\nCL_INVALID_GLOBAL_WORK_SIZE:\n"
    [] error = -64 -> "\nCL_INVALID_PROPERTY:\n"
    [] error = -65 -> "\nCL_INVALID_IMAGE_DESCRIPTOR:\n"
    [] error = -66 -> "\nCL_INVALID_COMPILER_OPTIONS:\n"
    [] error = -67 -> "\nCL_INVALID_LINKER_OPTIONS:\n"
    [] error = -68 -> "\nCL_INVALID_DEVICE_PARTITION_COUNT:\n"
    [] error = -69 -> "\nCL_INVALID_PIPE_SIZE:\n"
    [] error = -70 -> "\nCL_INVALID_DEVICE_QUEUE:\n"
    [] error = -1000 -> "\nCL_INVALID_GL_SHAREGROUP_REFERENCE_KHR:\n"
    [] error = -1001 -> "\nCL_PLATFORM_NOT_FOUND_KHR:\n"
    [] error = -1002 -> "\nCL_INVALID_D3D10_DEVICE_KHR:\n"
    [] error = -1003 -> "\nCL_INVALID_D3D10_RESOURCE_KHR:\n"
    [] error = -1004 -> "\nCL_D3D10_RESOURCE_ALREADY_ACQUIRED_KHR:\n"
    [] error = -1005 -> "\nCL_D3D10_RESOURCE_NOT_ACQUIRED_KHR:\n"
    [] error = -1006 -> "\nCL_INVALID_D3D11_DEVICE_KHR:\n"
    [] error = -1007 -> "\nCL_INVALID_D3D11_RESOURCE_KHR:\n"
    [] error = -1008 -> "\nCL_D3D11_RESOURCE_ALREADY_ACQUIRED_KHR:\n"
    [] error = -1009 -> "\nCL_D3D11_RESOURCE_NOT_ACQUIRED_KHR:\n"
    [] error = -9999 -> "\nNVidia:\n"
    [] OTHER -> "\nUnknown OpenCL error\n"

\* Variant: the status is not looked at.
CheckOpenCLError_Ignored(error) == FALSE

\* CheckOpenCLError raises exactly when the status is not CL_SUCCESS.
CheckOpenCLError(error) == error # CL_SUCCESS

\* A caller hands a status to CheckOpenCLError: it returns, or raises a
\* std::runtime_error whose text is ErrorType(error).
CheckOpenCLErrorCall(error) ==
  /\ UNCHANGED <<backendVars, phase, managerVars,
                 buffers, moduleVars>>
  /\ last' = IF CheckOpenCLError(error)
             THEN [Outcome("CheckOpenCLError", "throw", "std::runtime_error")
                     EXCEPT !.status = error, !.message = ErrorType(error)]
             ELSE [Outcome("CheckOpenCLError", "ok", "")
                     EXCEPT !.status = error]

\* --------------------------------------------------------------- constructor
GetDeviceType(types, device_id) == At(types, device_id)

\* CreateContextCPUGPU: one pass over the devices; ctxs = [all, gpu, cpu].
RECURSIVE CreateContextCPUGPU(_, _, _)
CreateContextCPUGPU(types, i, ctxs) ==
  IF i >= Len(types) THEN ctxs
  ELSE
    LET newCtx(c) == [h |-> Len(c.all) + 1, dev |-> i]
        g == IF GetDeviceType(types, i) = "CL_DEVICE_TYPE_GPU"
             THEN [ctxs EXCEPT !.all = Append(@, newCtx(ctxs)),
                               !.gpu = Append(@, newCtx(ctxs))]
             ELSE ctxs
        c == IF GetDeviceType(types, i) = "CL_DEVICE_TYPE_CPU"
             THEN [g EXCEPT !.all = Append(@, newCtx(g)),
                            !.cpu = Append(@, newCtx(g))]
             ELSE g
    IN CreateContextCPUGPU(types, i + 1, c)

\* CreateCommandQueue: one queue per context, on the context's first device.
\* queueStatus[i] is the status the backend gives for the creation of queue
\* i; the constructor of cl::CommandQueue is not given a place to store it.
CreateCommandQueue(ctxs, queueStatus) ==
  [i \in 1..Len(ctxs) |->
     [ctx |-> ctxs[i].h, dev |-> ctxs[i].dev,
      props |-> "CL_QUEUE_PROFILING_ENABLE",
      created |-> (queueStatus[i] = CL_SUCCESS)]]

\* Variant: the loop stops one context short.
CreateEvent_OneShort(ctxs) ==
  [i \in 1..(Len(ctxs) - 1) |-> [ctx |-> i - 1, queued |-> FALSE, ended |-> FALSE]]

\* CreateEvent: one event per context, with no command; queued: a command
\* was enqueued with the event, ended: that command has completed.
CreateEvent(ctxs) == [i \in 1..Len(ctxs) |-> [ctx |-> i - 1, queued |-> FALSE, ended |-> FALSE]]

\* InitializeRAMManager: one zeroed counter per context.
InitializeRAMManager(ctxs) == [i \in 1..Len(ctxs) |-> 0]

\* The build options the constructor assembles.
DefaultBuildOptions ==
  "-cl-std=CL1.2" \o " -cl-kernel-arg-info -w -Werror"
    \o (IF "GGEMS_FAST_MATH" \in macros
        THEN " -cl-fast-relaxed-math" ELSE "")
    \o (IF "GGEMS_DOUBLE_PRECISION" \in macros
        THEN " -DGGEMS_DOUBLE_PRECISION" ELSE "")

\* p_device_image_3d_max_h_ after the constructor's loop: the answer to the
\* query CL_DEVICE_IMAGE3D_MAX_HEIGHT is stored in it, and then the answer
\* to the query CL_DEVICE_IMAGE3D_MAX_DEPTH.
Image3DMaxHeight ==
  [i \in 1..Len(cl_devices) |-> cl_device_info[i].CL_DEVICE_IMAGE3D_MAX_DEPTH]

\* p_device_image_3d_max_d_ after the constructor's loop: allocated, and
\* never written.
Image3DMaxDepth == [i \in 1..Len(cl_devices) |-> allocated]

\* p_device_native_vector_width_char_: the answer to the query
\* CL_DEVICE_PREFERRED_VECTOR_WIDTH_CHAR is stored in it.
NativeVectorWidthChar ==
  [i \in 1..Len(cl_devices) |->
     cl_device_info[i].CL_DEVICE_PREFERRED_VECTOR_WIDTH_CHAR]

\* p_device_preferred_vector_width_char_: the answer to the query
\* CL_DEVICE_NATIVE_VECTOR_WIDTH_CHAR is stored in it.
PreferredVectorWidthChar ==
  [i \in 1..Len(cl_devices) |->
     cl_device_info[i].CL_DEVICE_NATIVE_VECTOR_WIDTH_CHAR]

\* A backend call: its name, the status it returns, and whether the code
\* passes that status to CheckOpenCLError.
Call(call, status, checked) ==
  [call |-> call, status |-> status, checked |-> checked]

\* cl::Platform::get fails when there is no platform.
PlatformStatus ==
  IF cl_platforms = <<>> THEN CL_PLATFORM_NOT_FOUND_KHR ELSE CL_SUCCESS

\* getDevices(CL_DEVICE_TYPE_ALL) fails on a platform that has no device.
DevicesStatus(p) ==
  IF cl_platforms[p] = 0 THEN CL_DEVICE_NOT_FOUND ELSE CL_SUCCESS

\* The calls of the enumeration: the platforms, the devices of each
\* platform, the capability queries (their status is enumStatus).
EnumerationCalls(enumStatus) ==
  <<Call("clGetPlatformIDs", PlatformStatus, TRUE)>>
    \o [p \in 1..Len(cl_platforms) |->
          Call("clGetDeviceIDs", DevicesStatus(p), TRUE)]
    \o <<Call("clGetDeviceInfo", enumStatus, TRUE)>>

\* The calls of CreateContextCPUGPU: cl::Context is constructed without a
\* place to store the status.
ContextCalls(ctxs, ctxStatus) ==
  [i \in 1..Len(ctxs) |-> Call("clCreateContext", ctxStatus[i], FALSE)]

\* The calls of CreateCommandQueue: for each context the checked query of
\* its devices, which fails on a context that was not created, then the
\* creation of the queue.
QueueCalls(ctxs, ctxStatus, infoStatus, queueStatus) ==
  [j \in 1..(2 * Len(ctxs)) |->
     LET i == (j + 1) \div 2
     IN IF j % 2 = 1
        THEN Call("clGetContextInfo",
                  IF ctxStatus[i] # CL_SUCCESS THEN CL_INVALID_CONTEXT
                  ELSE infoStatus[i], TRUE)
        ELSE Call("clCreateCommandQueue", queueStatus[i], FALSE)]

\* Variant: no status is passed to CheckOpenCLError.
FirstRaise_None(calls) == 0

\* The position of the first call whose status CheckOpenCLError raises on;
\* 0 when there is none.
FirstRaise(calls) ==
  LET raising == {k \in 1..Len(calls) :
                    calls[k].checked /\ CheckOpenCLError(calls[k].status)}
  IN IF raising = {} THEN 0
     ELSE CHOOSE k \in raising : \A m \in raising : k <= m

\* The constructor. enumStatus is the status of the capability queries;
\* ctxStatus[i], infoStatus[i] and queueStatus[i] are the statuses of the
\* creation of context i, of the query of its devices and of the creation
\* of its queue.
OpenCLManager(enumStatus, ctxStatus, infoStatus, queueStatus) ==
  /\ phase = "new"
  /\ UNCHANGED <<backendVars, buffers, moduleVars>>
  /\ LET ctxs == CreateContextCPUGPU(cl_devices, 0,
                   [all |-> <<>>, gpu |-> <<>>, cpu |-> <<>>])
         calls == EnumerationCalls(enumStatus)
                    \o ContextCalls(ctxs.all, ctxStatus)
                    \o QueueCalls(ctxs.all, ctxStatus, infoStatus, queueStatus)
         k == FirstRaise(calls)
         made == IF k = 0 THEN calls ELSE SubSeq(calls, 1, k)
         out(res, err, st) ==
           [Outcome("OpenCLManager", res, err)
              EXCEPT !.status = st,
                     !.calls = [n \in 1..Len(made) |-> made[n].call],
                     !.statuses = [n \in 1..Len(made) |-> made[n].status]]
     IN IF k # 0
        THEN /\ phase' = "failed"
             /\ last' = [out("throw", "CheckOpenCLError", calls[k].status)
                           EXCEPT !.message = ErrorType(calls[k].status)]
             /\ UNCHANGED managerVars
        ELSE /\ phase' = "ready"
             /\ p_device_device_type_' = cl_devices
             /\ p_device_global_mem_size_' = cl_global_mem_size
             /\ p_device_image_3d_max_h_' = Image3DMaxHeight
             /\ p_device_image_3d_max_d_' = Image3DMaxDepth
             /\ p_device_native_vector_width_char_' = NativeVectorWidthChar
             /\ p_device_preferred_vector_width_char_' =
                  PreferredVectorWidthChar
             /\ build_options_' = DefaultBuildOptions
             /\ vp_contexts_cl_' = ctxs.all
             /\ vp_contexts_gpu_cl_' = ctxs.gpu
             /\ vp_contexts_cpu_cl_' = ctxs.cpu
             /\ vp_contexts_act_cl_' = <<>>
             /\ vp_queues_cl_' = CreateCommandQueue(ctxs.all, queueStatus)
             /\ vp_event_cl_' = CreateEvent(ctxs.all)
             /\ vp_kernel_cl_' = <<>>
             /\ p_used_ram_' = InitializeRAMManager(ctxs.all)
             /\ last' = out("ok", "", CL_SUCCESS)

\* ------------------------------------------------------------ context registry
\* GetGlobalContextID: linear search; 0 when the handle is not in the list.
RECURSIVE GetGlobalContextIDFrom(_, _)
GetGlobalContextIDFrom(p_context, i) ==
  IF i >= Len(vp_contexts_cl_) THEN 0
  ELSE IF p_context = At(vp_contexts_cl_, i) THEN i
  ELSE GetGlobalContextIDFrom(p_context, i + 1)

\* Variant: the loop never finds the context.
GetGlobalContextID_NeverFound(p_context) == 0

GetGlobalContextID(p_context) == GetGlobalContextIDFrom(p_context, 0)

GetNumberOfActivatedContext == Len(vp_contexts_act_cl_)

\* Variant: the test is missing.
AlreadyActivated_Missing == FALSE

\* Variant: the test lets a second context in.
AlreadyActivated_MoreThanOne == Len(vp_contexts_act_cl_) > 1

\* The test "a context has already been activated".
AlreadyActivated == vp_contexts_act_cl_ # <<>>

ContextToActivate(context_id) ==
  /\ phase = "ready"
  /\ UNCHANGED <<backendVars, phase, deviceTables,
                 build_options_, vp_contexts_cl_,
                 vp_contexts_cpu_cl_, vp_contexts_gpu_cl_, vp_queues_cl_,
                 vp_event_cl_, vp_kernel_cl_, p_used_ram_, buffers,
                 moduleVars>>
  /\ IF AlreadyActivated
     THEN /\ last' = [Outcome("ContextToActivate", ThrowException,
                        "A context has already been activated!!!")
                        EXCEPT !.arg = context_id]
          /\ UNCHANGED vp_contexts_act_cl_
     ELSE IF ~InRange(vp_contexts_cl_, context_id)
     THEN /\ last' = [Outcome("ContextToActivate", "throw", "std::out_of_range")
                        EXCEPT !.arg = context_id]
          /\ UNCHANGED vp_contexts_act_cl_
     ELSE /\ vp_contexts_act_cl_' =
               Append(vp_contexts_act_cl_, At(vp_contexts_cl_, context_id))
          /\ last' = [Outcome("ContextToActivate", "ok", "")
                        EXCEPT !.arg = context_id]

\* ------------------------------------------------- memory allocator, ledger
\* The context the allocator works against: vp_contexts_act_cl_.front().
Front(v) == v[1]

\* Variant: the counter of the first context, whichever context is active.
AddRAMMemory_FirstContext(size) ==
  [p_used_ram_ EXCEPT ![1] = (@ + size) % UlongMod]

\* AddRAMMemory: the counter of the active context, plus size, on a cl_ulong.
AddRAMMemory(size) ==
  LET kContextGlobalID == GetGlobalContextID(Front(vp_contexts_act_cl_))
  IN [p_used_ram_ EXCEPT ![kContextGlobalID + 1] = (@ + size) % UlongMod]

\* Variant: the counter stops at 0.
SubRAMMemory_Saturating(size) ==
  LET kContextGlobalID == GetGlobalContextID(Front(vp_contexts_act_cl_))
  IN [p_used_ram_ EXCEPT ![kContextGlobalID + 1] =
        IF @ < size THEN 0 ELSE @ - size]

\* Variant: the size is added.
SubRAMMemory_Added(size) ==
  LET kContextGlobalID == GetGlobalContextID(Front(vp_contexts_act_cl_))
  IN [p_used_ram_ EXCEPT ![kContextGlobalID + 1] = (@ + size) % UlongMod]

\* SubRAMMemory: the counter of the active context, minus size, on a cl_ulong.
SubRAMMemory(size) ==
  LET kContextGlobalID == GetGlobalContextID(Front(vp_contexts_act_cl_))
  IN [p_used_ram_ EXCEPT ![kContextGlobalID + 1] = (@ - size) % UlongMod]

\* The ledger entry of the active context, 0 when none is active.
ActiveRAM ==
  IF vp_contexts_act_cl_ = <<>> THEN 0
  ELSE At(p_used_ram_, GetGlobalContextID(Front(vp_contexts_act_cl_)))

\* The address a new buffer object gets: one no live buffer has.
NewBuffer == CHOOSE id \in 1..MaxBuffers : \A b \in buffers : b.id # id

\* Allocate(p_host_ptr, size, flags): error is the status the backend gives
\* for the buffer creation; caller names the call site.
Allocate(size, error, caller) ==
  /\ phase = "ready"
  /\ UNCHANGED <<backendVars, deviceTables,
                 build_options_, vp_contexts_cl_,
                 vp_contexts_cpu_cl_, vp_contexts_gpu_cl_, vp_contexts_act_cl_,
                 vp_queues_cl_, vp_event_cl_, vp_kernel_cl_,
                 kernel_world_tracking_, world_recording_>>
  /\ IF vp_contexts_act_cl_ = <<>>
     THEN \* front() of an empty vector is dereferenced: undefined behaviour
          /\ \E o \in UBOutcomes :
               last' = [Outcome("Allocate", "crash", o)
                          EXCEPT !.arg = size, !.caller = caller]
          /\ phase' = "crashed"
          /\ UNCHANGED <<p_used_ram_, buffers>>
     ELSE IF CheckOpenCLError(error)
     THEN /\ last' = [Outcome("Allocate", "throw", "CheckOpenCLError")
                        EXCEPT !.arg = size, !.caller = caller,
                               !.status = error, !.pre = ActiveRAM,
                               !.message = ErrorType(error),
                               !.calls = <<"clCreateBuffer">>,
                               !.statuses = <<error>>]
          /\ UNCHANGED <<phase, p_used_ram_, buffers>>
     ELSE /\ Cardinality(buffers) < MaxBuffers
          /\ buffers' = buffers \cup {[id |-> NewBuffer, size |-> size]}
          /\ p_used_ram_' = AddRAMMemory(size)
          /\ last' = [Outcome("Allocate", "ok", "")
                        EXCEPT !.arg = size, !.caller = caller,
                               !.status = error,
                               !.buf = NewBuffer, !.pre = ActiveRAM,
                               !.calls = <<"clCreateBuffer">>,
                               !.statuses = <<error>>]
          /\ UNCHANGED phase

\* This Deallocate call is the first operation after the successful Allocate
\* that returned p_buffer, and is passed the size passed to that Allocate.
FollowsItsAllocate(p_buffer, size) ==
  /\ last.op = "Allocate" /\ last.res = "ok"
  /\ last.buf = p_buffer /\ last.arg = size

\* Deallocate(p_buffer, size): p_buffer is a live buffer's address or null.
Deallocate(p_buffer, size, caller) ==
  /\ phase = "ready"
  /\ UNCHANGED <<backendVars, deviceTables,
                 build_options_, vp_contexts_cl_,
                 vp_contexts_cpu_cl_, vp_contexts_gpu_cl_, vp_contexts_act_cl_,
                 vp_queues_cl_, vp_event_cl_, vp_kernel_cl_,
                 kernel_world_tracking_, world_recording_>>
  /\ IF vp_contexts_act_cl_ = <<>>
     THEN \* SubRAMMemory reads front() of an empty vector: undefined behaviour
          /\ \E o \in UBOutcomes :
               last' = [Outcome("Deallocate", "crash", o)
                          EXCEPT !.arg = size, !.caller = caller,
                                 !.buf = p_buffer]
          /\ phase' = "crashed"
          /\ UNCHANGED <<p_used_ram_, buffers>>
     ELSE /\ p_used_ram_' = SubRAMMemory(size)
          /\ buffers' = {b \in buffers : b.id # p_buffer}
          /\ last' = [Outcome("Deallocate", "ok", "")
                        EXCEPT !.arg = size, !.caller = caller,
                               !.buf = p_buffer, !.pre = ActiveRAM,
                               !.paired = FollowsItsAllocate(p_buffer, size),
                               !.prior = IF FollowsItsAllocate(p_buffer, size)
                                         THEN last.pre ELSE 0]
          /\ UNCHANGED phase

\* A module other than GGEMSGeometryTransformation allocates a buffer.
AllocateCall(size, error) ==
  /\ Allocate(size, error, "client")
  /\ UNCHANGED p_matrix_transformation_

\* A module releases a buffer it owns, or a null pointer, with any size.
DeallocateCall(p_buffer, size) ==
  /\ p_buffer # p_matrix_transformation_ \/ p_buffer = NullPtr
  /\ Deallocate(p_buffer, size, "client")
  /\ UNCHANGED p_matrix_transformation_

\* GGEMSGeometryTransformation constructor: the object exists, holding its
\* buffer, only when Allocate returned.
GGEMSGeometryTransformation(error) ==
  /\ p_matrix_transformation_ = NullPtr
  /\ Allocate(SizeofGGfloat44, error, "GGEMSGeometryTransformation")
  /\ p_matrix_transformation_' = IF last'.res = "ok" THEN last'.buf ELSE NullPtr

\* GGEMSGeometryTransformation destructor.
GGEMSGeometryTransformationDtor ==
  /\ p_matrix_transformation_ # NullPtr
  /\ Deallocate(p_matrix_transformation_, SizeofGGfloat44,
                "~GGEMSGeometryTransformation")
  /\ p_matrix_transformation_' = NullPtr

\* ------------------------------------------------------------- kernel compiler
\* Variant: the test is missing.
BothOptions_Missing(p_custom_options, p_additional_options) == FALSE

\* The test "custom and additional options are both set".
BothOptions(p_custom_options, p_additional_options) ==
  p_custom_options # NullStr /\ p_additional_options # NullStr

\* Variant: the stream is opened in a mode that creates a missing file.
OpenSource_Created(fileExists) == TRUE

\* std::ifstream source_file_stream(kernel_filename, std::ios::in): the
\* stream is open exactly when the file can be opened for reading.
OpenSource(fileExists) == fileExists

\* Stream::CheckInputStream(stream, filename) raises when the stream is not
\* open.
CheckInputStream(is_open) == ~is_open

\* The option string CompileKernel copies into kernel_compilation_option.
ResolveOptions(p_custom_options, p_additional_options) ==
  IF p_custom_options # NullStr THEN p_custom_options[1]
  ELSE IF p_additional_options # NullStr
  THEN build_options_ \o " " \o p_additional_options[1]
  ELSE build_options_

\* The string and its terminator fit the array.
Fits(s) == Len(s) + 1 <= KernelOptionSize

\* strcpy/strcat into the array. A string that fits is copied. One that does
\* not is written past the end of the array, which is undefined behaviour:
\* a checked strcpy ends the process ("abort"); otherwise the bytes past the
\* end land on the neighbouring stack slots and the call goes on, with those
\* bytes still as written ("intact") or overwritten by the later stores to
\* the locals that live there ("overwritten").
StrcpyOutcomes(s) ==
  IF Fits(s) THEN {"copied"} ELSE {"abort", "intact", "overwritten"}

\* What is read back from the array after outcome o.
ReadOptions(s, o) ==
  IF o = "overwritten" THEN SubSeq(s, 1, KernelOptionSize) \o "?" ELSE s

\* Variant: the new kernel takes the place of the registry's last entry.
RegisterKernel_ReplacesLast(kernel) ==
  IF vp_kernel_cl_ = <<>> THEN <<kernel>>
  ELSE [vp_kernel_cl_ EXCEPT ![Len(vp_kernel_cl_)] = kernel]

\* vp_kernel_cl_.push_back(new cl::Kernel(...)).
RegisterKernel(kernel) == Append(vp_kernel_cl_, kernel)

\* Variant: the build log is left out of the message.
BuildErrorMessage_NoLog(build_status, log) == ErrorType(build_status) \o "\n"

\* The message raised on a failed build: the description of the status, a
\* line break, the build log.
BuildErrorMessage(build_status, log) == ErrorType(build_status) \o "\n" \o log

\* CompileKernel(kernel_filename, kernel_name, p_custom_options,
\* p_additional_options). fileExists: the source file can be opened; the two
\* options: null or a pointer to a string; progStatus, infoStatus,
\* build_status, kernelStatus: the statuses the backend gives for the program
\* creation, the context query, the build and the kernel creation; log: the
\* build log it gives.
CompileKernel(fileExists, p_custom_options, p_additional_options, progStatus, infoStatus, build_status, kernelStatus, log) ==
  /\ phase = "ready"
  /\ UNCHANGED <<backendVars, deviceTables,
                 build_options_, vp_contexts_cl_,
                 vp_contexts_cpu_cl_, vp_contexts_gpu_cl_, vp_contexts_act_cl_,
                 vp_queues_cl_, vp_event_cl_, p_matrix_transformation_>>
  /\ LET out(res, err, st, opened, calls, opts) ==
           [Outcome("CompileKernel", res, err)
              EXCEPT !.status = st,
                     !.custom = (p_custom_options # NullStr),
                     !.additional = (p_additional_options # NullStr),
                     !.p_custom_options = p_custom_options,
                     !.p_additional_options = p_additional_options,
                     !.fileExists = fileExists, !.fileOpened = opened,
                     !.calls = [n \in 1..Len(calls) |-> calls[n].call],
                     !.statuses = [n \in 1..Len(calls) |-> calls[n].status],
                     !.options = opts]
         resolved == ResolveOptions(p_custom_options, p_additional_options)
         \* cl::Program is constructed without a place to store the status
         program == Call("clCreateProgramWithSource", progStatus, FALSE)
         getInfo == Call("clGetContextInfo", infoStatus, TRUE)
         build == Call("clBuildProgram", build_status, TRUE)
         \* the status of getBuildInfo is not looked at
         getBuildInfo == Call("clGetProgramBuildInfo", CL_SUCCESS, FALSE)
         kernel == Call("clCreateKernel", kernelStatus, TRUE)
     IN IF BothOptions(p_custom_options, p_additional_options)
        THEN /\ last' = out(ThrowException,
                  "Custom and additional options can not by set in same time!!!",
                  CL_SUCCESS, FALSE, <<>>, "")
             /\ UNCHANGED <<phase, vp_kernel_cl_>>
        ELSE IF CheckInputStream(OpenSource(fileExists))
        THEN /\ last' = out("throw", "CheckInputStream", CL_SUCCESS, TRUE,
                            <<>>, "")
             /\ UNCHANGED <<phase, vp_kernel_cl_>>
        ELSE \E o \in StrcpyOutcomes(resolved) :
          LET kernel_compilation_option == ReadOptions(resolved, o)
          IN IF o = "abort"
             THEN /\ last' = out("crash", "abort", CL_SUCCESS, TRUE, <<>>, "")
                  /\ phase' = "crashed"
                  /\ UNCHANGED vp_kernel_cl_
             ELSE IF ~InRange(vp_contexts_act_cl_, 0)
             THEN /\ last' = out("throw", "std::out_of_range", CL_SUCCESS,
                                 TRUE, <<>>, "")
                  /\ UNCHANGED <<phase, vp_kernel_cl_>>
             ELSE IF CheckOpenCLError(infoStatus)
             THEN /\ last' = [out("throw", "CheckOpenCLError", infoStatus,
                                  TRUE, <<program, getInfo>>, "")
                               EXCEPT !.message = ErrorType(infoStatus)]
                  /\ UNCHANGED <<phase, vp_kernel_cl_>>
             ELSE IF build_status # CL_SUCCESS
             THEN /\ last' = [out(ThrowException, "ErrorType + build log",
                                  build_status, TRUE,
                                  <<program, getInfo, build, getBuildInfo>>,
                                  kernel_compilation_option)
                               EXCEPT !.build_status = build_status,
                                      !.log = log,
                                      !.message =
                                        BuildErrorMessage(build_status, log)]
                  /\ UNCHANGED <<phase, vp_kernel_cl_>>
             ELSE /\ Len(vp_kernel_cl_) < MaxKernels
                  /\ vp_kernel_cl_' =
                       RegisterKernel(
                         [h |-> Len(vp_kernel_cl_) + 1,
                          ctx |-> GetGlobalContextID(
                                    At(vp_contexts_act_cl_, 0))])
                  /\ UNCHANGED phase
                  /\ last' =
                       IF CheckOpenCLError(kernelStatus)
                       THEN [out("throw", "CheckOpenCLError", kernelStatus,
                                 TRUE, <<program, getInfo, build, kernel>>,
                                 kernel_compilation_option)
                               EXCEPT !.build_status = build_status,
                                      !.log = log,
                                      !.message = ErrorType(kernelStatus)]
                       ELSE [out("ok", "", CL_SUCCESS, TRUE,
                                 <<program, getInfo, build, kernel>>,
                                 kernel_compilation_option)
                               EXCEPT !.build_status = build_status,
                                      !.log = log,
                                      !.ret = Len(vp_kernel_cl_')]

\* A module other than GGEMSWorld compiles a kernel.
CompileKernelCall(fileExists, p_custom_options, p_additional_options, st) ==
  /\ CompileKernel(fileExists, p_custom_options, p_additional_options,
                   st[1], st[2], st[3], st[4], st[5])
  /\ UNCHANGED <<p_used_ram_, buffers, kernel_world_tracking_,
                 world_recording_>>

\* ------------------------------------------------------------------ GGEMSWorld
\* GGEMSWorld::InitializeKernel: compiles WorldTracking.cl with no custom
\* options and with the additional options "" or "-DGGEMS_TRACKING"; the
\* object holds the kernel when CompileKernel returned.
InitializeKernel(is_tracking_verbose, fileExists, st) ==
  LET kernel_option == IF is_tracking_verbose THEN "-DGGEMS_TRACKING" ELSE ""
  IN /\ CompileKernel(fileExists, NullStr, StrPtr(kernel_option),
                      st[1], st[2], st[3], st[4], st[5])
     /\ kernel_world_tracking_' =
          IF last'.res = "ok" THEN last'.ret ELSE kernel_world_tracking_
     /\ UNCHANGED <<p_used_ram_, buffers, world_recording_>>

\* CleanBuffer: the buffer is filled with zeros; the buffers that are live
\* and their sizes stay as they are.
CleanBuffer(bufs, p_buffer) == bufs

\* Variant: an exception gives back what the operation had acquired.
Unwind_RollsBack(reached, before) == before

\* What an exception that leaves GGEMSWorld::Initialize does to the ledger
\* and to the buffers: nothing catches it there and nothing is released, the
\* state reached is kept.
Unwind(reached, before) == reached

\* GGEMSWorld::Initialize, with a context active: the photon-tracking buffer
\* and the energy-deposit buffer are allocated when asked for, then the
\* kernel is compiled. total_number_voxel_world: the product of the
\* dimensions; sizeofGGDosiType: the size the build gives GGDosiType;
\* error1, error2: the statuses of the two buffer creations; the rest is
\* passed to InitializeKernel.
WorldInitialize(total_number_voxel_world, sizeofGGDosiType, is_photon_tracking_, is_edep_, error1, error2, is_tracking_verbose, fileExists, st) ==
  LET k == GetGlobalContextID(Front(vp_contexts_act_cl_))
      add(ram, size) == [ram EXCEPT ![k + 1] = (@ + size) % UlongMod]
      new(bufs) == CHOOSE id \in 1..MaxBuffers : \A b \in bufs : b.id # id
      photonSize == total_number_voxel_world * SizeofGGint
      edepSize == total_number_voxel_world * sizeofGGDosiType
      wanted == (IF is_photon_tracking_ THEN 1 ELSE 0)
                  + (IF is_edep_ THEN 1 ELSE 0)
      \* after the first statement
      photon == IF is_photon_tracking_ THEN new(buffers) ELSE NullPtr
      ram1 == IF is_photon_tracking_ THEN add(p_used_ram_, photonSize)
              ELSE p_used_ram_
      bufs1 == IF is_photon_tracking_
               THEN CleanBuffer(buffers \cup {[id |-> photon,
                                                size |-> photonSize]}, photon)
               ELSE buffers
      \* after the second statement
      edep == IF is_edep_ THEN new(bufs1) ELSE NullPtr
      ram2 == IF is_edep_ THEN add(ram1, edepSize) ELSE ram1
      bufs2 == IF is_edep_
               THEN CleanBuffer(bufs1 \cup {[id |-> edep, size |-> edepSize]},
                                edep)
               ELSE bufs1
      kernel_option == IF is_tracking_verbose THEN "-DGGEMS_TRACKING" ELSE ""
      failed(error, size, ram) ==
        [Outcome("Allocate", "throw", "CheckOpenCLError")
           EXCEPT !.arg = size, !.caller = "GGEMSWorld::Initialize",
                  !.status = error, !.pre = At(ram, k),
                  !.message = ErrorType(error),
                  !.calls = <<"clCreateBuffer">>, !.statuses = <<error>>]
      frame == UNCHANGED <<backendVars, phase, deviceTables, build_options_,
                           vp_contexts_cl_, vp_contexts_cpu_cl_,
                           vp_contexts_gpu_cl_, vp_contexts_act_cl_,
                           vp_queues_cl_, vp_event_cl_, vp_kernel_cl_,
                           p_matrix_transformation_, kernel_world_tracking_>>
  IN /\ phase = "ready"
     /\ vp_contexts_act_cl_ # <<>>
     /\ Cardinality(buffers) + wanted <= MaxBuffers
     /\ IF is_photon_tracking_ /\ CheckOpenCLError(error1)
        THEN /\ last' = failed(error1, photonSize, p_used_ram_)
             /\ UNCHANGED <<p_used_ram_, buffers, world_recording_>>
             /\ frame
        ELSE IF is_edep_ /\ CheckOpenCLError(error2)
        THEN /\ last' = failed(error2, edepSize, ram1)
             /\ p_used_ram_' = Unwind(ram1, p_used_ram_)
             /\ buffers' = Unwind(bufs1, buffers)
             /\ world_recording_' =
                  [world_recording_ EXCEPT !.photon_tracking_ = photon]
             /\ frame
        ELSE /\ CompileKernel(fileExists, NullStr, StrPtr(kernel_option),
                              st[1], st[2], st[3], st[4], st[5])
             /\ kernel_world_tracking_' =
                  IF last'.res = "ok" THEN last'.ret
                  ELSE kernel_world_tracking_
             /\ p_used_ram_' =
                  IF last'.res = "ok" THEN ram2 ELSE Unwind(ram2, p_used_ram_)
             /\ buffers' =
                  IF last'.res = "ok" THEN bufs2 ELSE Unwind(bufs2, buffers)
             /\ world_recording_' =
                  [photon_tracking_ |-> photon, edep_ |-> edep]

\* GetCommandQueue: the index of the queue of the active context.
GetCommandQueue == GetGlobalContextID(Front(vp_contexts_act_cl_))

\* GetEvent: the index of the event of the active context.
GetEvent == GetGlobalContextID(Front(vp_contexts_act_cl_))

\* What enqueueNDRangeKernel returns: a queue that was not created is not a
\* valid queue; on a valid queue, what the backend answers.
EnqueueStatus(queue, backendStatus) ==
  IF At(vp_queues_cl_, queue).created THEN backendStatus
  ELSE CL_INVALID_COMMAND_QUEUE

\* queue->finish(): when it succeeds every command of the queue has
\* completed; when it fails the command may have completed or not.
Finish(finishStatus, completes) == finishStatus = CL_SUCCESS \/ completes

\* GGEMSWorld::Tracking. backendStatus, finishStatus: what the backend
\* answers to the enqueue and to finish(); completes: whether the kernel has
\* completed when a failed finish() returns.
Tracking(backendStatus, finishStatus, completes) ==
  /\ phase = "ready"
  /\ kernel_world_tracking_ # NullPtr
  /\ vp_contexts_act_cl_ # <<>>
  /\ UNCHANGED <<backendVars, phase, deviceTables, build_options_,
                 vp_contexts_cl_, vp_contexts_cpu_cl_, vp_contexts_gpu_cl_,
                 vp_contexts_act_cl_, vp_queues_cl_, vp_kernel_cl_,
                 p_used_ram_, buffers, moduleVars>>
  /\ LET queue == GetCommandQueue
         event == GetEvent
         kernel_status == EnqueueStatus(queue, backendStatus)
         out(res, err, calls) ==
           [Outcome("Tracking", res, err)
              EXCEPT !.arg = event, !.buf = queue,
                     !.status = kernel_status,
                     !.calls = [n \in 1..Len(calls) |-> calls[n].call],
                     !.statuses = [n \in 1..Len(calls) |-> calls[n].status]]
         enqueue == Call("clEnqueueNDRangeKernel", kernel_status, TRUE)
         \* the status of finish() is not looked at
         finish == Call("clFinish", finishStatus, FALSE)
     IN IF CheckOpenCLError(kernel_status)
        THEN /\ last' = [out("throw", "CheckOpenCLError", <<enqueue>>)
                          EXCEPT !.message = ErrorType(kernel_status)]
             /\ UNCHANGED vp_event_cl_
        ELSE /\ vp_event_cl_' =
                  [vp_event_cl_ EXCEPT ![event + 1] =
                     [@ EXCEPT !.queued = TRUE,
                               !.ended = Finish(finishStatus, completes)]]
             /\ last' = out("ok", "", <<enqueue, finish>>)

\* The backend completes a command that was still pending.
KernelCompletes ==
  /\ phase = "ready"
  /\ \E n \in 1..Len(vp_event_cl_) :
       /\ vp_event_cl_[n].queued /\ ~vp_event_cl_[n].ended
       /\ vp_event_cl_' = [vp_event_cl_ EXCEPT ![n].ended = TRUE]
       /\ last' = [Outcome("KernelCompletes", "ok", "") EXCEPT !.arg = n - 1]
  /\ UNCHANGED <<backendVars, phase, deviceTables, build_options_,
                 vp_contexts_cl_, vp_contexts_cpu_cl_, vp_contexts_gpu_cl_,
                 vp_contexts_act_cl_, vp_queues_cl_, vp_kernel_cl_,
                 p_used_ram_, buffers, moduleVars>>

\* ---------------------------------------------------------------- kernel timing
\* What getProfilingInfo returns for an event: an event no command was ever
\* enqueued with is not a valid event; the timestamps of a command are
\* available once it has completed, and then the backend answers.
ProfilingStatus(event, backendStatus) ==
  IF ~event.queued THEN CL_INVALID_EVENT
  ELSE IF ~event.ended THEN CL_PROFILING_INFO_NOT_AVAILABLE
  ELSE backendStatus

\* Variant: the event of the first context, whichever context is active.
ActivatedEvent_First == GetGlobalContextID(At(vp_contexts_cl_, 0))

\* The index of the event DisplayElapsedTimeInKernel reads.
ActivatedEvent == GetGlobalContextID(At(vp_contexts_act_cl_, 0))

\* DisplayElapsedTimeInKernel(kernel_name). startStatus, endStatus: what the
\* backend answers to the two queries when the timestamps are available.
DisplayElapsedTimeInKernel(startStatus, endStatus) ==
  /\ phase = "ready"
  /\ UNCHANGED <<backendVars, phase, managerVars, buffers, moduleVars>>
  /\ IF ~InRange(vp_contexts_act_cl_, 0)
     THEN last' = Outcome("DisplayElapsedTimeInKernel", "throw",
                          "std::out_of_range")
     ELSE
       LET i == ActivatedEvent
           p_event == At(vp_event_cl_, i)
           start == Call("clGetEventProfilingInfo",
                         ProfilingStatus(p_event, startStatus), TRUE)
           end == Call("clGetEventProfilingInfo",
                       ProfilingStatus(p_event, endStatus), TRUE)
           k == FirstRaise(<<start, end>>)
           made == IF k = 0 THEN <<start, end>> ELSE SubSeq(<<start, end>>, 1, k)
           out(res, err, st) ==
             [Outcome("DisplayElapsedTimeInKernel", res, err)
                EXCEPT !.arg = i, !.status = st,
                       !.calls = [n \in 1..Len(made) |-> made[n].call],
                       !.statuses = [n \in 1..Len(made) |-> made[n].status]]
       IN last' = IF k # 0
                  THEN [out("throw", "CheckOpenCLError", made[k].status)
                          EXCEPT !.message = ErrorType(made[k].status)]
                  ELSE out("ok", "", CL_SUCCESS)

\* ------------------------------------------------------------------ reporters
\* GetGlobalMemoryContext(context_id): the entry context_id of the table of
\* global memory sizes, a table with one entry per device.
GetGlobalMemoryContext(context_id) == At(p_device_global_mem_size_, context_id)

\* percent_RAM: float(used) * 100.0f / float(max_RAM). The sizes of MemSizes
\* and the ledger values the allocator reaches are below 2^24 and give whole
\* percentages, which a float holds exactly.
PercentRAM(used, max_RAM) == (used * 100) \div max_RAM

\* Variant: the call zeroes the ledger.
ConstCall_ZeroesLedger(result) ==
  /\ phase = "ready"
  /\ last' = result
  /\ p_used_ram_' = [n \in 1..Len(p_used_ram_) |-> 0]
  /\ UNCHANGED <<backendVars, phase, deviceTables, build_options_,
                 vp_contexts_cl_, vp_contexts_cpu_cl_, vp_contexts_gpu_cl_,
                 vp_contexts_act_cl_, vp_queues_cl_, vp_event_cl_,
                 vp_kernel_cl_, buffers, moduleVars>>

\* A call of a const member function of the manager: it writes to the
\* output stream, or raises, and writes no member.
ConstCall(result) ==
  /\ phase = "ready"
  /\ last' = result
  /\ UNCHANGED <<backendVars, phase, managerVars, buffers, moduleVars>>

\* What a reporter writes, or the error it raises at the first backend query
\* whose status is not CL_SUCCESS.
ReporterResult(op, calls, report) ==
  LET k == FirstRaise(calls)
      made == IF k = 0 THEN calls ELSE SubSeq(calls, 1, k)
      out(res, err, st) ==
        [Outcome(op, res, err)
           EXCEPT !.status = st,
                  !.calls = [n \in 1..Len(made) |-> made[n].call],
                  !.statuses = [n \in 1..Len(made) |-> made[n].status]]
  IN IF k # 0
     THEN [out("throw", "CheckOpenCLError", calls[k].status)
             EXCEPT !.message = ErrorType(calls[k].status)]
     ELSE [out("ok", "", CL_SUCCESS) EXCEPT !.report = report]

\* The name the reporters print for a device type.
DeviceTypeName(device_type) ==
  IF device_type \in {"CL_DEVICE_TYPE_CPU", "CL_DEVICE_TYPE_GPU"}
  THEN device_type ELSE "Unknown device type!!!"

\* PrintPlatformInfos: one entry per platform.
PrintPlatformInfosResult ==
  ReporterResult("PrintPlatformInfos", <<>>,
                 [n \in 1..Len(cl_platforms) |-> [platform |-> n - 1]])

\* PrintDeviceInfos: one entry per device, from the recorded tables.
PrintDeviceInfosResult ==
  ReporterResult("PrintDeviceInfos", <<>>,
    [n \in 1..Len(p_device_device_type_) |->
       [device |-> n - 1,
        device_type |-> DeviceTypeName(p_device_device_type_[n]),
        global_mem_size |-> p_device_global_mem_size_[n],
        image_3d_max_h |-> p_device_image_3d_max_h_[n],
        image_3d_max_d |-> p_device_image_3d_max_d_[n],
        native_vector_width_char |-> p_device_native_vector_width_char_[n],
        preferred_vector_width_char |->
          p_device_preferred_vector_width_char_[n]]])

\* PrintBuildOptions: the default build options.
PrintBuildOptionsResult ==
  ReporterResult("PrintBuildOptions", <<>>, <<build_options_>>)

\* The queries PrintContextInfos and PrintActivatedContextInfos make for
\* each context of a list; infoStatus is what the backend answers to them.
ContextInfoCalls(ctxs, infoStatus) ==
  [n \in 1..Len(ctxs) |-> Call("clGetContextInfo", infoStatus, TRUE)]

\* The entries both write for a list of contexts.
ContextInfoReport(ctxs) ==
  [n \in 1..Len(ctxs) |->
     [context |-> n - 1, num_devices |-> 1,
      device_type |-> DeviceTypeName(At(cl_devices, ctxs[n].dev))]]

\* PrintContextInfos: one entry per context of the global list.
PrintContextInfosResult(infoStatus) ==
  ReporterResult("PrintContextInfos",
                 ContextInfoCalls(vp_contexts_cl_, infoStatus),
                 ContextInfoReport(vp_contexts_cl_))

\* PrintActivatedContextInfos: one entry per activated context.
PrintActivatedContextInfosResult(infoStatus) ==
  ReporterResult("PrintActivatedContextInfos",
                 ContextInfoCalls(vp_contexts_act_cl_, infoStatus),
                 ContextInfoReport(vp_contexts_act_cl_))

\* PrintCommandQueueInfos: one entry per queue; the query of the device of a
\* queue that was not created fails.
PrintCommandQueueInfosResult(infoStatus) ==
  ReporterResult("PrintCommandQueueInfos",
    [n \in 1..Len(vp_queues_cl_) |->
       Call("clGetCommandQueueInfo",
            IF vp_queues_cl_[n].created THEN infoStatus
            ELSE CL_INVALID_COMMAND_QUEUE, TRUE)],
    [n \in 1..Len(vp_queues_cl_) |->
       [queue |-> n - 1, device |-> vp_queues_cl_[n].dev]])

\* PrintRAMStatus: one line per context, with the ledger entry, the maximum
\* and the percentage.
PrintRAMStatusResult ==
  ReporterResult("PrintRAMStatus", <<>>,
    [n \in 1..Len(vp_contexts_cl_) |->
       LET i == n - 1
           max_RAM == GetGlobalMemoryContext(i)
       IN [context |-> i, used |-> At(p_used_ram_, i),
           max_RAM |-> max_RAM,
           percent_RAM |-> PercentRAM(At(p_used_ram_, i), max_RAM)]])

PrintPlatformInfos == ConstCall(PrintPlatformInfosResult)

PrintDeviceInfos == ConstCall(PrintDeviceInfosResult)

PrintBuildOptions == ConstCall(PrintBuildOptionsResult)

PrintContextInfos(infoStatus) == ConstCall(PrintContextInfosResult(infoStatus))

PrintActivatedContextInfos(infoStatus) ==
  ConstCall(PrintActivatedContextInfosResult(infoStatus))

PrintCommandQueueInfos(infoStatus) ==
  ConstCall(PrintCommandQueueInfosResult(infoStatus))

PrintRAMStatus == ConstCall(PrintRAMStatusResult)

\* The first reporter of a sequence that raised, 0 when none did.
RECURSIVE FirstThrow(_)
FirstThrow(results) ==
  IF results = <<>> THEN 0
  ELSE IF Head(results).res # "ok" THEN 1
  ELSE LET k == FirstThrow(Tail(results)) IN IF k = 0 THEN 0 ELSE k + 1

\* GGEMSManager::Initialize, the part that works on the OpenCL manager: the
\* reporters are called when the verbosity flags are set, in this order; the
\* first that raises ends the call.
Initialize(is_opencl_verbose_, is_memory_ram_verbose_, infoStatus) ==
  LET results ==
        (IF is_opencl_verbose_
         THEN <<PrintPlatformInfosResult, PrintDeviceInfosResult,
                PrintContextInfosResult(infoStatus),
                PrintCommandQueueInfosResult(infoStatus),
                PrintActivatedContextInfosResult(infoStatus),
                PrintBuildOptionsResult>>
         ELSE <<>>)
        \o (IF is_memory_ram_verbose_ THEN <<PrintRAMStatusResult>> ELSE <<>>)
      k == FirstThrow(results)
      made == IF k = 0 THEN results ELSE SubSeq(results, 1, k)
      called == [n \in 1..Len(made) |-> made[n].op]
  IN ConstCall(
       IF k # 0
       THEN [Outcome("Initialize", "throw", results[k].err)
               EXCEPT !.status = results[k].status,
                      !.message = results[k].message,
                      !.calls = called]
       ELSE [Outcome("Initialize", "ok", "")
               EXCEPT !.calls = called,
                      !.report = [n \in 1..Len(made) |-> made[n].report]])

\* ------------------------------------------------------------- destruction
\* A resource of the heap: an array (named by the member that points to it)
\* or an object (numbered by its place in the list that owns it).
Array(member) == <<"array", member, 0>>

Object(class, n) == <<class, "", n>>

\* The elements of a sequence, as a set.
Elements(v) == {v[n] : n \in 1..Len(v)}

\* The resources a constructed manager has acquired: the arrays of the
\* constructor and of InitializeRAMManager, one cl::Device per device, one
\* cl::Context, cl::CommandQueue and cl::Event per context, one cl::Kernel
\* per registered kernel.
Acquired ==
  IF phase \in {"new", "failed"} THEN {}
  ELSE {Array(a) : a \in Elements(ConstructorArrays)}
         \cup {Array("p_used_ram_")}
         \cup {Object("cl::Device", n) : n \in 1..Len(cl_devices)}
         \cup {Object("cl::Context", n) : n \in 1..Len(vp_contexts_cl_)}
         \cup {Object("cl::CommandQueue", n) : n \in 1..Len(vp_queues_cl_)}
         \cup {Object("cl::Event", n) : n \in 1..Len(vp_event_cl_)}
         \cup {Object("cl::Kernel", n) : n \in 1..Len(vp_kernel_cl_)}

\* Memory::MemFree on each member of the list that is not null: a
\* constructed manager holds every array of the constructor.
MemFree(members) ==
  [n \in 1..Len(members) |-> Array(members[n])]

\* for (auto&& c : vp_contexts_cl_) delete c: the global list only; the
\* CPU, GPU and activated lists hold the same pointers and are not walked.
DeleteContexts ==
  [n \in 1..Len(vp_contexts_cl_) |-> Object("cl::Context", n)]

\* The destructor of a constructed manager.
OpenCLManagerDtor ==
  /\ phase = "ready"
  /\ phase' = "destroyed"
  /\ freed' = freed
        \o MemFree(DestructorArrays)
        \o DeleteContexts
        \o [n \in 1..Len(vp_queues_cl_) |-> Object("cl::CommandQueue", n)]
        \o [n \in 1..Len(vp_event_cl_) |-> Object("cl::Event", n)]
        \o [n \in 1..Len(cl_devices) |-> Object("cl::Device", n)]
        \o [n \in 1..Len(vp_kernel_cl_) |-> Object("cl::Kernel", n)]
        \o MemFree(<<"p_used_ram_">>)
  /\ last' = Outcome("~OpenCLManager", "ok", "")
  /\ UNCHANGED <<macros, cl_platforms, cl_devices, cl_global_mem_size,
                 cl_device_info, allocated, managerVars, buffers, moduleVars>>

\* ------------------------------------------------------------ specification
\* The statuses handed to the error decoder.
StatusCodes == (-MaxStatus)..MaxStatus

\* The program before the manager is constructed, in any build, on a
\* backend with any devices that have the given capabilities, a backend
\* call having returned one of the given statuses.
InitBackend(statuses, infos, contents) ==
  /\ macros \in SUBSET Macros
  /\ cl_devices \in SeqsUpTo(DeviceTypes, MaxDevices)
  /\ cl_platforms \in {p \in SeqsUpTo(0..MaxDevices, MaxPlatforms) :
                         Sum(p) = Len(cl_devices)}
  /\ phase = "new"
  /\ cl_global_mem_size \in [1..Len(cl_devices) -> MemSizes]
  /\ cl_device_info \in [1..Len(cl_devices) -> infos]
  /\ allocated \in contents
  /\ freed = <<>>
  /\ p_device_device_type_ = <<>>
  /\ p_device_global_mem_size_ = <<>>
  /\ p_device_image_3d_max_h_ = <<>>
  /\ p_device_image_3d_max_d_ = <<>>
  /\ p_device_native_vector_width_char_ = <<>>
  /\ p_device_preferred_vector_width_char_ = <<>>
  /\ build_options_ = ""
  /\ vp_contexts_cl_ = <<>>
  /\ vp_contexts_cpu_cl_ = <<>>
  /\ vp_contexts_gpu_cl_ = <<>>
  /\ vp_contexts_act_cl_ = <<>>
  /\ vp_queues_cl_ = <<>>
  /\ vp_event_cl_ = <<>>
  /\ vp_kernel_cl_ = <<>>
  /\ p_used_ram_ = <<>>
  /\ buffers = {}
  /\ p_matrix_transformation_ = NullPtr
  /\ kernel_world_tracking_ = NullPtr
  /\ world_recording_ = [photon_tracking_ |-> NullPtr, edep_ |-> NullPtr]
  /\ \E error \in statuses :
       last = [Outcome("", "ok", "") EXCEPT !.status = error]

\* The same on plain devices.
InitWith(statuses) == InitBackend(statuses, {PlainDevice}, PlainContents)

InitAny == InitWith(StatusCodes)

\* The same, no backend call having failed.
InitSuccess == InitWith({CL_SUCCESS})

\* The build without the optional macros, on a backend with one platform.
Init ==
  /\ InitSuccess
  /\ macros = {}
  /\ Len(cl_platforms) = 1
  /\ \A d \in 1..Len(cl_devices) : cl_global_mem_size[d] = SmallMem

\* Statuses of the creations and queries made for each context.
StatusesPerContext(failure) == [1..MaxDevices -> {CL_SUCCESS, failure}]

AllSuccess == [i \in 1..MaxDevices |-> CL_SUCCESS]

\* Construction on a backend that creates every context and queue asked for.
Construction ==
  \E enumStatus \in {CL_SUCCESS, CL_OUT_OF_HOST_MEMORY},
     infoStatus \in StatusesPerContext(CL_INVALID_CONTEXT) :
    OpenCLManager(enumStatus, AllSuccess, infoStatus, AllSuccess)

\* Construction on any backend.
ConstructionAny ==
  \E enumStatus \in {CL_SUCCESS, CL_OUT_OF_HOST_MEMORY},
     ctxStatus \in StatusesPerContext(CL_OUT_OF_HOST_MEMORY),
     infoStatus \in StatusesPerContext(CL_INVALID_CONTEXT),
     queueStatus \in StatusesPerContext(CL_OUT_OF_HOST_MEMORY) :
    OpenCLManager(enumStatus, ctxStatus, infoStatus, queueStatus)

Activation == \E context_id \in 0..MaxDevices : ContextToActivate(context_id)

\* Construction, activation and the memory allocator with its callers.
Next ==
  \/ Construction
  \/ Activation
  \/ \E size \in ByteSizes,
        error \in {CL_SUCCESS, CL_MEM_OBJECT_ALLOCATION_FAILURE} :
       AllocateCall(size, error)
  \/ \E p_buffer \in {b.id : b \in buffers} \cup {NullPtr}, size \in ByteSizes :
       DeallocateCall(p_buffer, size)
  \/ \E error \in {CL_SUCCESS, CL_MEM_OBJECT_ALLOCATION_FAILURE} :
       GGEMSGeometryTransformation(error)
  \/ GGEMSGeometryTransformationDtor

\* Construction, activation and the kernel compiler.
NextKernel ==
  \/ Construction
  \/ Activation
  \/ \E fileExists \in BOOLEAN, p_custom_options \in OptionPointers,
        p_additional_options \in OptionPointers, st \in KernelStatuses :
       CompileKernelCall(fileExists, p_custom_options, p_additional_options,
                         st)

Spec == Init /\ [][Next]_vars

SpecKernel == Init /\ [][NextKernel]_vars

\* Construction, activation, the kernel compiler and destruction.
NextDestroy ==
  \/ NextKernel
  \/ OpenCLManagerDtor

SpecDestroy == Init /\ [][NextDestroy]_vars

\* The kernel compiler in every build.
InitBuild ==
  /\ InitSuccess
  /\ Len(cl_platforms) = 1
  /\ \A d \in 1..Len(cl_devices) : cl_global_mem_size[d] = SmallMem

SpecBuild == InitBuild /\ [][NextKernel]_vars

\* Construction on any backend, and activation.
NextConstruct ==
  \/ ConstructionAny
  \/ Activation

\* A backend with any number of platforms.
InitConstruct ==
  /\ InitSuccess
  /\ macros = {}
  /\ \A d \in 1..Len(cl_devices) : cl_global_mem_size[d] = SmallMem

SpecConstruct == InitConstruct /\ [][NextConstruct]_vars

\* Construction on a backend whose devices have any capabilities, and the
\* report of the devices.
InitCapabilities ==
  /\ InitBackend({CL_SUCCESS}, DeviceInfos, AllocatedContents)
  /\ macros = {}
  /\ Len(cl_platforms) = 1
  /\ \A d \in 1..Len(cl_devices) : cl_global_mem_size[d] = SmallMem

NextCapabilities ==
  \/ Construction
  \/ PrintDeviceInfos

SpecCapabilities == InitCapabilities /\ [][NextCapabilities]_vars

\* The memory operations used as intended: a buffer is released by one
\* Deallocate, which is passed the size the buffer was allocated with.
NextLedger ==
  \/ Construction
  \/ Activation
  \/ \E size \in ByteSizes,
        error \in {CL_SUCCESS, CL_MEM_OBJECT_ALLOCATION_FAILURE} :
       AllocateCall(size, error)
  \/ \E b \in buffers : DeallocateCall(b.id, b.size)
  \/ \E error \in {CL_SUCCESS, CL_MEM_OBJECT_ALLOCATION_FAILURE} :
       GGEMSGeometryTransformation(error)
  \/ GGEMSGeometryTransformationDtor

SpecLedger == Init /\ [][NextLedger]_vars

\* Construction, activation and the initialization of the one GGEMSWorld
\* object, which holds nothing before it. A status is drawn only for a call
\* that is made.
NextWorld ==
  \/ Construction
  \/ Activation
  \/ \E total_number_voxel_world \in VoxelCounts, sizeofGGDosiType \in DosiSizes,
        is_photon_tracking_ \in BOOLEAN, is_edep_ \in BOOLEAN,
        error1 \in {CL_SUCCESS, CL_MEM_OBJECT_ALLOCATION_FAILURE},
        error2 \in {CL_SUCCESS, CL_MEM_OBJECT_ALLOCATION_FAILURE},
        is_tracking_verbose \in {FALSE}, fileExists \in BOOLEAN,
        st \in KernelStatuses :
       /\ world_recording_ = [photon_tracking_ |-> NullPtr, edep_ |-> NullPtr]
       /\ kernel_world_tracking_ = NullPtr
       /\ is_photon_tracking_ \/ error1 = CL_SUCCESS
       /\ is_edep_ \/ error2 = CL_SUCCESS
       /\ (error1 = CL_SUCCESS /\ error2 = CL_SUCCESS)
            \/ (fileExists /\ \A i \in 1..4 : st[i] = CL_SUCCESS)
       /\ error1 = CL_SUCCESS \/ error2 = CL_SUCCESS
       /\ WorldInitialize(total_number_voxel_world, sizeofGGDosiType,
                       is_photon_tracking_, is_edep_, error1, error2,
                       is_tracking_verbose, fileExists, st)

SpecWorld == Init /\ [][NextWorld]_vars

\* Statuses the backend may give for an enqueue, for finish() and for a
\* query.
DispatchStatuses == {CL_SUCCESS, CL_OUT_OF_RESOURCES}

\* Construction on a backend whose devices have any of the memory sizes,
\* activation, allocation and the report of the ledger.
NextReport ==
  \/ Construction
  \/ Activation
  \/ \E size \in ByteSizes,
        error \in {CL_SUCCESS, CL_MEM_OBJECT_ALLOCATION_FAILURE} :
       AllocateCall(size, error)
  \/ PrintRAMStatus

\* A backend whose devices have any of the memory sizes.
InitReport == InitSuccess /\ macros = {} /\ Len(cl_platforms) = 1

SpecReport == InitReport /\ [][NextReport]_vars

\* Construction on any backend, activation, the allocation made by a
\* GGEMSGeometryTransformation object, the reporters and
\* GGEMSManager::Initialize.
NextReporters ==
  \/ ConstructionAny
  \/ Activation
  \/ GGEMSGeometryTransformation(CL_SUCCESS)
  \/ PrintPlatformInfos
  \/ PrintDeviceInfos
  \/ PrintBuildOptions
  \/ \E infoStatus \in DispatchStatuses : PrintContextInfos(infoStatus)
  \/ \E infoStatus \in DispatchStatuses :
       PrintActivatedContextInfos(infoStatus)
  \/ \E infoStatus \in DispatchStatuses : PrintCommandQueueInfos(infoStatus)
  \/ PrintRAMStatus
  \/ \E is_opencl_verbose_ \in BOOLEAN, is_memory_ram_verbose_ \in BOOLEAN,
        infoStatus \in DispatchStatuses :
       Initialize(is_opencl_verbose_, is_memory_ram_verbose_, infoStatus)

SpecReporters == Init /\ [][NextReporters]_vars

\* Construction on any backend, activation, the GGEMSWorld object compiling
\* and launching its kernel, and the timing of the kernel.
NextTracking ==
  \/ ConstructionAny
  \/ Activation
  \/ \E is_tracking_verbose \in BOOLEAN, fileExists \in BOOLEAN,
        st \in KernelStatuses :
       InitializeKernel(is_tracking_verbose, fileExists, st)
  \/ \E backendStatus \in DispatchStatuses, finishStatus \in DispatchStatuses,
        completes \in BOOLEAN :
       Tracking(backendStatus, finishStatus, completes)
  \/ KernelCompletes
  \/ \E startStatus \in DispatchStatuses, endStatus \in DispatchStatuses :
       DisplayElapsedTimeInKernel(startStatus, endStatus)

SpecTracking == Init /\ [][NextTracking]_vars

\* A backend call has returned a status, which no operation has looked at
\* yet.
InitDecoder ==
  /\ InitAny
  /\ macros = {}
  /\ cl_platforms = <<>>

\* The status is handed to the error decoder.
NextDecoder == last.op = "" /\ CheckOpenCLErrorCall(last.status)

SpecDecoder == InitDecoder /\ [][NextDecoder]_vars

\* ------------------------------------------------------------------ claims
\* The 0-based index, in the global list, of the active context; -1 if none.
ActiveIndex ==
  IF vp_contexts_act_cl_ = <<>> THEN -1
  ELSE GetGlobalContextID(Front(vp_contexts_act_cl_))

ContextIds == 0..(Len(vp_contexts_cl_) - 1)

\* C1: in every reachable state the list of activated contexts holds at most
\* one context, and once a context has been activated no step changes the
\* list: nothing deactivates, replaces or adds to the active context.
C1_AtMostOneActiveForEver ==
  /\ [](GetNumberOfActivatedContext <= 1)
  /\ [][vp_contexts_act_cl_ # <<>>
          => vp_contexts_act_cl_' = vp_contexts_act_cl_]_vars

\* A context is active, buffers were allocated against it, and a further
\* activation was then attempted.
C1_Witness ==
  /\ GetNumberOfActivatedContext = 1
  /\ buffers # {}
  /\ last.op = "ContextToActivate"
  /\ last.res = "throw"

\* C2: once a context is active, every ContextToActivate call, with any
\* index, raises 'A context has already been activated' and leaves the list
\* of activated contexts unchanged.
C2_LaterActivationFails ==
  [][(vp_contexts_act_cl_ # <<>> /\ last'.op = "ContextToActivate")
       => /\ last'.res = "throw"
          /\ last'.err = "A context has already been activated!!!"
          /\ vp_contexts_act_cl_' = vp_contexts_act_cl_]_vars

\* With two contexts and the first one active, a call with an index past the
\* end of the context list has failed.
C2_Witness ==
  /\ Len(vp_contexts_cl_) = 2
  /\ ActiveIndex = 0
  /\ last.op = "ContextToActivate"
  /\ last.arg >= Len(vp_contexts_cl_)
  /\ last.err = "A context has already been activated!!!"

\* C3 as stated: a successful Allocate of n bytes leaves the active context's
\* ledger entry equal to its prior value plus n.
C3_AllocateAddsExactly ==
  (last.op = "Allocate" /\ last.res = "ok")
    => ActiveRAM = last.pre + last.arg

\* C3, amended: a successful Allocate of n bytes leaves the active context's
\* ledger entry equal to its prior value plus n modulo the width of the
\* counter; a Deallocate of that buffer with the same n that directly follows
\* restores the entry to the prior value; the GGEMSGeometryTransformation
\* constructor allocates sizeof(GGfloat44) bytes and keeps the buffer, and
\* its destructor passes that buffer and the same size to Deallocate, which
\* takes that many bytes off the entry.
C3_AllocateDeallocateRoundTrip ==
  /\ (last.op = "Allocate" /\ last.res = "ok")
       => /\ ActiveRAM = (last.pre + last.arg) % UlongMod
          /\ (last.pre + last.arg < UlongMod => ActiveRAM = last.pre + last.arg)
  /\ (last.op = "Deallocate" /\ last.res = "ok" /\ last.paired)
       => ActiveRAM = last.prior
  /\ (last.caller = "GGEMSGeometryTransformation" /\ last.res = "ok")
       => /\ last.arg = SizeofGGfloat44
          /\ p_matrix_transformation_ = last.buf
          /\ [id |-> last.buf, size |-> SizeofGGfloat44] \in buffers
  /\ (last.caller = "~GGEMSGeometryTransformation" /\ last.res = "ok")
       => /\ last.arg = SizeofGGfloat44
          /\ last.buf # NullPtr
          /\ \A b \in buffers : b.id # last.buf
          /\ ActiveRAM = (last.pre - SizeofGGfloat44) % UlongMod

\* The GGEMSGeometryTransformation destructor has run directly after its
\* constructor, on a ledger entry that was not 0 before the pair.
C3_Witness ==
  /\ last.caller = "~GGEMSGeometryTransformation"
  /\ last.res = "ok"
  /\ last.paired
  /\ last.prior > 0
  /\ ActiveRAM = last.prior

\* C4: every ledger entry of a context that is not the active one is 0, and
\* no step changes such an entry.
C4_OnlyActiveEntryChanges ==
  /\ [](\A c \in ContextIds : c # ActiveIndex => At(p_used_ram_, c) = 0)
  /\ [][\A c \in ContextIds :
          (phase = "ready" /\ c # ActiveIndex)
            => At(p_used_ram_', c) = At(p_used_ram_, c)]_vars

\* The second of two contexts is active and holds bytes; the first holds 0.
C4_Witness ==
  /\ Len(vp_contexts_cl_) = 2
  /\ ActiveIndex = 1
  /\ At(p_used_ram_, 1) > 0
  /\ At(p_used_ram_, 0) = 0
  /\ last.op = "Deallocate"

\* C5: when the backend's buffer creation returns a status other than
\* success, Allocate raises through CheckOpenCLError, returns no buffer, and
\* neither the ledger nor the set of live buffers changes.
C5_FailedAllocateLeavesLedger ==
  [][(last'.op = "Allocate" /\ last'.status # CL_SUCCESS)
       => /\ last'.res = "throw"
          /\ last'.err = "CheckOpenCLError"
          /\ last'.buf = NullPtr
          /\ p_used_ram_' = p_used_ram_
          /\ buffers' = buffers]_vars

\* A buffer creation has failed while the active context's entry was not 0.
C5_Witness ==
  /\ last.op = "Allocate"
  /\ last.status = CL_MEM_OBJECT_ALLOCATION_FAILURE
  /\ last.res = "throw"
  /\ ActiveRAM > 0

\* C6 as stated: Allocate called while no context is active ends by raising
\* an error, with no buffer created and the ledger unchanged.
C6_AllocateWithoutContextRaises ==
  (last.op = "Allocate" /\ vp_contexts_act_cl_ = <<>>)
    => /\ last.res = "throw"
       /\ buffers = {}
       /\ \A c \in ContextIds : At(p_used_ram_, c) = 0

\* C7 as stated: after construction every discovered device, whatever its
\* type, is the device of exactly one context of the global list, and that
\* device's type is the type recorded at discovery.
C7_OneContextPerDevice ==
  phase = "ready"
    => \A d \in 0..(Len(cl_devices) - 1) :
         /\ Cardinality({c \in ContextIds : At(vp_contexts_cl_, c).dev = d}) = 1
         /\ At(p_device_device_type_, d) = At(cl_devices, d)

C9_BothOptionsRejectedFirst ==
  [][(last'.op = "CompileKernel" /\ last'.custom /\ last'.additional)
       => /\ last'.res = "throw"
          /\ last'.err =
               "Custom and additional options can not by set in same time!!!"
          /\ ~last'.fileOpened
          /\ last'.calls = <<>>
          /\ vp_kernel_cl_' = vp_kernel_cl_]_vars

\* Both options were passed with an existing source and an active context,
\* after a kernel had been registered.
C9_Witness ==
  /\ last.op = "CompileKernel"
  /\ last.custom /\ last.additional
  /\ last.fileExists
  /\ vp_contexts_act_cl_ # <<>>
  /\ vp_kernel_cl_ # <<>>
  /\ last.res = "throw"

\* C10: a CompileKernel call with at most one option argument set and a
\* source that cannot be opened raises through CheckInputStream before any
\* backend call, and leaves the kernel registry unchanged.
C10_UnreadableSourceRejected ==
  [][(/\ last'.op = "CompileKernel"
      /\ ~(last'.custom /\ last'.additional)
      /\ ~last'.fileExists)
       => /\ last'.res = "throw"
          /\ last'.err = "CheckInputStream"
          /\ last'.calls = <<>>
          /\ vp_kernel_cl_' = vp_kernel_cl_]_vars

\* An unreadable source was passed with one option set, a context active and
\* a kernel already registered.
C10_Witness ==
  /\ last.op = "CompileKernel"
  /\ last.custom /\ ~last.additional
  /\ ~last.fileExists
  /\ vp_contexts_act_cl_ # <<>>
  /\ vp_kernel_cl_ # <<>>
  /\ last.err = "CheckInputStream"

\* The backend build was called by the last operation.
BuildCalled ==
  \E i \in 1..Len(last.calls) : last.calls[i] = "clBuildProgram"

\* C11 as stated: the options CompileKernel passes to the backend build are
\* the custom options when they are given; otherwise the default build
\* options, one space and the additional options when those are given, the
\* empty string included; otherwise the default build options alone; and
\* the default build options are those set at construction.
C11_OptionsPassedToBuild ==
  /\ phase # "new" => build_options_ \in {"", DefaultBuildOptions}
  /\ (last.op = "CompileKernel" /\ BuildCalled)
       => last.options =
            IF last.p_custom_options # NullStr
            THEN last.p_custom_options[1]
            ELSE IF last.p_additional_options # NullStr
            THEN DefaultBuildOptions \o " " \o last.p_additional_options[1]
            ELSE DefaultBuildOptions

\* C12: when the backend build returns a status other than success,
\* CompileKernel raises an error whose message is the description of that
\* status followed by the build log, returns no kernel, and registers none.
C12_BuildFailureMessage ==
  [][(/\ last'.op = "CompileKernel"
      /\ \E i \in 1..Len(last'.calls) : last'.calls[i] = "clBuildProgram"
      /\ last'.build_status # CL_SUCCESS)
       => /\ last'.res = "throw"
          /\ last'.message =
               ErrorType(last'.build_status) \o "\n" \o last'.log
          /\ last'.ret = NullPtr
          /\ vp_kernel_cl_' = vp_kernel_cl_]_vars

\* A build has failed with a build log while a kernel was registered.
C12_Witness ==
  /\ last.op = "CompileKernel"
  /\ last.build_status = CL_BUILD_PROGRAM_FAILURE
  /\ last.log # ""
  /\ last.res = "throw"
  /\ vp_kernel_cl_ # <<>>

\* v is w with elements added at its end.
IsPrefix(w, v) == Len(w) <= Len(v) /\ SubSeq(v, 1, Len(w)) = w

\* C13: a successful CompileKernel call appends exactly one kernel to the
\* registry and returns it, and no step of any operation shortens the
\* registry or removes or replaces one of its entries.
C13_RegistryAppendOnly ==
  [][/\ (last'.op = "CompileKernel" /\ last'.res = "ok")
          => /\ Len(vp_kernel_cl_') = Len(vp_kernel_cl_) + 1
             /\ last'.ret = Len(vp_kernel_cl_')
     /\ IsPrefix(vp_kernel_cl_, vp_kernel_cl_')]_vars

\* A second kernel was compiled and returned; the first is still registered.
C13_Witness ==
  /\ last.op = "CompileKernel"
  /\ last.res = "ok"
  /\ Len(vp_kernel_cl_) = 2
  /\ last.ret = 2
  /\ At(vp_kernel_cl_, 0).h = 1

\* C14 as stated: every backend call of the enumeration, the context and
\* queue creation, the kernel compilation and the buffer allocation that
\* returns a status other than success ends the operation there, by raising
\* the description of that status: no later backend call of the operation
\* is made, other than the retrieval of the build log, and no call of a
\* kernel compilation or buffer allocation is made twice.
C14_EveryStatusChecked ==
  /\ last.op \in {"OpenCLManager", "CompileKernel", "Allocate"}
       => \A n \in 1..Len(last.statuses) :
            last.statuses[n] # CL_SUCCESS
              => /\ last.res = "throw"
                 /\ last.status = last.statuses[n]
                 /\ \A m \in (n + 1)..Len(last.statuses) :
                      last.calls[m] = "clGetProgramBuildInfo"
  /\ last.op \in {"CompileKernel", "Allocate"}
       => \A m, n \in 1..Len(last.calls) :
            m # n => last.calls[m] # last.calls[n]

\* The statuses the decoder is said to name.
NamedStatuses ==
  ((-19)..(-1)) \cup ((-70)..(-30)) \cup ((-1009)..(-1000)) \cup {-9999}

NoDevice == \A p \in 1..Len(cl_platforms) : cl_platforms[p] = 0

C17_UsagePercent ==
  last.op = "PrintRAMStatus" =>
    \A n \in 1..Len(last.report) :
      last.report[n].percent_RAM =
        (100 * p_used_ram_[n])
          \div At(cl_global_mem_size, vp_contexts_cl_[n].dev)

\* The same where every device is a CPU or a GPU, so that context i is on
\* device i.
C17_UsagePercentOnCPUGPU ==
  (/\ last.op = "PrintRAMStatus"
   /\ \A d \in 1..Len(cl_devices) :
        cl_devices[d] \in {"CL_DEVICE_TYPE_CPU", "CL_DEVICE_TYPE_GPU"}) =>
    \A n \in 1..Len(last.report) :
      last.report[n].percent_RAM =
        (100 * p_used_ram_[n])
          \div At(cl_global_mem_size, vp_contexts_cl_[n].dev)

\* C18: when a Tracking call returns normally, the kernel it enqueued with
\* the active context's event on the active context's queue has completed.
C18_TrackingSynchronous ==
  (last.op = "Tracking" /\ last.res = "ok") =>
    /\ last.arg = ActiveIndex /\ last.buf = ActiveIndex
    /\ At(vp_event_cl_, ActiveIndex).queued
    /\ At(vp_event_cl_, ActiveIndex).ended

\* The same for the calls whose finish() succeeded, and a failed enqueue
\* raises with nothing enqueued.
C18_SynchronousWhenFinishSucceeds ==
  /\ (last.op = "Tracking" /\ last.res = "ok"
        /\ last.statuses[2] = CL_SUCCESS) =>
       At(vp_event_cl_, ActiveIndex).ended
  /\ (last.op = "Tracking" /\ last.res = "ok") =>
       /\ last.arg = ActiveIndex /\ last.buf = ActiveIndex
       /\ last.statuses[1] = CL_SUCCESS
  /\ (last.op = "Tracking" /\ last.res = "throw") =>
       last.status # CL_SUCCESS /\ last.message = ErrorType(last.status)

\* The command of the active context's event has completed.
ActiveEventEnded ==
  At(vp_event_cl_, ActiveIndex).queued /\ At(vp_event_cl_, ActiveIndex).ended

\* C19: with a context active, DisplayElapsedTimeInKernel reads the event at
\* the global index of the active context, and raises the decoded backend
\* error when the command of that event has not completed or no command was
\* ever enqueued with it.
C19_ElapsedTimeOfActiveEvent ==
  (last.op = "DisplayElapsedTimeInKernel" /\ vp_contexts_act_cl_ # <<>>) =>
    /\ last.arg = ActiveIndex
    /\ ~ActiveEventEnded =>
         /\ last.res = "throw"
         /\ last.status \in {CL_INVALID_EVENT, CL_PROFILING_INFO_NOT_AVAILABLE}
         /\ last.message = ErrorType(last.status)
         /\ last.message # ErrorType(CL_SUCCESS)

\* The second of two contexts is active and the kernel enqueued with its
\* event is still pending when the elapsed time is asked for.
C19_Witness ==
  /\ last.op = "DisplayElapsedTimeInKernel" /\ last.res = "throw"
  /\ Len(vp_contexts_cl_) = 2 /\ ActiveIndex = 1
  /\ vp_event_cl_[2].queued /\ ~vp_event_cl_[2].ended
  /\ ~vp_event_cl_[1].queued

\* No kernel was ever dispatched with the active context's event.
C19_WitnessNeverDispatched ==
  /\ last.op = "DisplayElapsedTimeInKernel" /\ last.res = "throw"
  /\ last.status = CL_INVALID_EVENT
  /\ ~At(vp_event_cl_, ActiveIndex).queued

\* The reporters, and the operation that calls them.
Reporters ==
  {"PrintPlatformInfos", "PrintDeviceInfos", "PrintBuildOptions",
   "PrintContextInfos", "PrintActivatedContextInfos",
   "PrintCommandQueueInfos", "PrintRAMStatus", "Initialize"}

\* C20: a call of a reporter, made directly or by GGEMSManager::Initialize
\* with any setting of the verbosity flags, whether it returns or raises,
\* leaves the device tables, the context lists, the active context, the
\* queues, the events, the kernel registry and the ledger as they were.
C20_ReportersChangeNothing ==
  [][last'.op \in Reporters =>
       UNCHANGED <<deviceTables, build_options_, vp_contexts_cl_,
                   vp_contexts_cpu_cl_, vp_contexts_gpu_cl_,
                   vp_contexts_act_cl_, vp_queues_cl_, vp_event_cl_,
                   vp_kernel_cl_, p_used_ram_>>]_vars

\* Initialize has called the seven reporters, with a context active and
\* bytes recorded in the ledger.
C20_Witness ==
  /\ last.op = "Initialize" /\ last.res = "ok" /\ Len(last.calls) = 7
  /\ vp_contexts_act_cl_ # <<>>
  /\ ActiveRAM > 0

\* C21: with a context active, Deallocate succeeds whatever buffer and size
\* it is passed, and leaves the active context's entry equal to its prior
\* value minus the passed size modulo the width of the counter; a successful
\* Allocate leaves it equal to the prior value plus the size, modulo the
\* same.
C21_DeallocateUnchecked ==
  /\ (last.op = "Deallocate" /\ vp_contexts_act_cl_ # <<>>)
       => /\ last.res = "ok"
          /\ ActiveRAM = (last.pre - last.arg) % UlongMod
          /\ (last.arg > last.pre
                => ActiveRAM = last.pre - last.arg + UlongMod)
  /\ (last.op = "Allocate" /\ last.res = "ok"
        /\ last.pre + last.arg >= UlongMod)
       => ActiveRAM = last.pre + last.arg - UlongMod

\* A Deallocate was passed more bytes than the entry held.
C21_Witness ==
  /\ last.op = "Deallocate" /\ last.res = "ok"
  /\ last.arg > last.pre
  /\ ActiveRAM = last.pre - last.arg + UlongMod

\* An Allocate has pushed the entry past the largest value of the counter.
C21_WitnessAllocateWraps ==
  /\ last.op = "Allocate" /\ last.res = "ok"
  /\ last.pre + last.arg >= UlongMod

\* C22: after construction each recorded capability of each device is the
\* value the backend reports for that capability: the Image3D max height
\* and max depth, and the native and the preferred width of char vectors.
C22_CapabilitiesRecorded ==
  phase = "ready" =>
    \A d \in 1..Len(cl_devices) :
      /\ p_device_image_3d_max_h_[d] =
           cl_device_info[d].CL_DEVICE_IMAGE3D_MAX_HEIGHT
      /\ p_device_image_3d_max_d_[d] =
           cl_device_info[d].CL_DEVICE_IMAGE3D_MAX_DEPTH
      /\ p_device_native_vector_width_char_[d] =
           cl_device_info[d].CL_DEVICE_NATIVE_VECTOR_WIDTH_CHAR
      /\ p_device_preferred_vector_width_char_[d] =
           cl_device_info[d].CL_DEVICE_PREFERRED_VECTOR_WIDTH_CHAR

\* What does hold: the device type and the global memory size are the
\* backend's.
C22_TypeAndMemoryRecorded ==
  phase = "ready" =>
    /\ p_device_device_type_ = cl_devices
    /\ p_device_global_mem_size_ = cl_global_mem_size

\* The bytes of the live buffer with the given address.
BufferSize(bufs, p_buffer) == (CHOOSE b \in bufs : b.id = p_buffer).size

\* C23: when GGEMSWorld::Initialize has allocated its photon-tracking buffer
\* and then raises, from its second Allocate or from CompileKernel, every
\* buffer that was live stays live, the photon-tracking buffer is live with
\* its bytes counted in the active context's entry, and no other entry
\* changes: nothing is released and nothing is taken off the ledger.
C23_NoRollback ==
  [][(/\ world_recording_' # world_recording_
      /\ world_recording_'.photon_tracking_ # NullPtr
      /\ last'.res # "ok")
       => LET photon == world_recording_'.photon_tracking_
              edep == world_recording_'.edep_
              k == GetGlobalContextID(Front(vp_contexts_act_cl_))
              bytes == BufferSize(buffers', photon)
                         + (IF \E b \in buffers' \ buffers : b.id = edep
                            THEN BufferSize(buffers', edep) ELSE 0)
          IN /\ buffers \subseteq buffers'
             /\ \E b \in buffers' \ buffers : b.id = photon
             /\ BufferSize(buffers', photon) \in
                  {n * SizeofGGint : n \in VoxelCounts}
             /\ p_used_ram_' =
                  [p_used_ram_ EXCEPT ![k + 1] = (@ + bytes) % UlongMod]]_vars

\* The second Allocate of GGEMSWorld::Initialize has failed: the
\* photon-tracking buffer is live and counted.
C23_Witness ==
  /\ last.caller = "GGEMSWorld::Initialize" /\ last.res = "throw"
  /\ world_recording_.photon_tracking_ # NullPtr
  /\ world_recording_.edep_ = NullPtr
  /\ \E b \in buffers : b.id = world_recording_.photon_tracking_
  /\ ActiveRAM > 0

\* CompileKernel has failed after both buffers were allocated.
C23_WitnessKernelFails ==
  /\ last.op = "CompileKernel" /\ last.res # "ok"
  /\ world_recording_.photon_tracking_ # NullPtr
  /\ world_recording_.edep_ # NullPtr
  /\ Cardinality(buffers) = 2

\* The contexts of the global list.
Contexts == {vp_contexts_cl_[i] : i \in 1..Len(vp_contexts_cl_)}

\* A context that the manager did not create.
ForeignContext == [h |-> Len(vp_contexts_cl_) + 1, dev |-> 0]

\* C24: once the manager is constructed, GetGlobalContextID gives i for the
\* context stored at index i of the global list, for every i, and 0 for a
\* context that is not in the list, the same value as for the first
\* context; and no step changes the index given for a context.
C24_GlobalContextID ==
  /\ [](phase = "ready"
         => /\ \A i \in ContextIds :
                 GetGlobalContextID(At(vp_contexts_cl_, i)) = i
            /\ \A c \in Contexts : c # ForeignContext
            /\ GetGlobalContextID(ForeignContext) = 0
            /\ vp_contexts_cl_ # <<>>
                 => GetGlobalContextID(ForeignContext) =
                      GetGlobalContextID(At(vp_contexts_cl_, 0)))
  /\ [][phase = "ready"
          => \A c \in Contexts \cup {ForeignContext} :
               GetGlobalContextID(c)' = GetGlobalContextID(c)]_vars

\* The manager holds several contexts, the last of them is active and a
\* kernel has been compiled for it.
C24_Witness ==
  /\ phase = "ready"
  /\ Len(vp_contexts_cl_) >= 2
  /\ ActiveIndex = Len(vp_contexts_cl_) - 1
  /\ GetGlobalContextID(At(vp_contexts_cl_, Len(vp_contexts_cl_) - 1)) >= 1
  /\ vp_kernel_cl_ # <<>>

\* C25: a CompileKernel call that raises an error (both options set,
\* unreadable source, no active context, failed context query, build
\* failure, or failed creation of the kernel object) leaves the kernel
\* registry as it was before the call.
C25_RegistryHoldsCreatedKernels ==
  [][(last'.op = "CompileKernel" /\ last'.res \in {"throw", ThrowException})
       => vp_kernel_cl_' = vp_kernel_cl_]_vars

\* Every raise of CompileKernel that comes before the kernel object is
\* created leaves the registry as it was.
C25_RegistryKeptBeforeKernelCreation ==
  [][(/\ last'.op = "CompileKernel"
      /\ last'.res \in {"throw", ThrowException}
      /\ "clCreateKernel" \notin
            {last'.calls[n] : n \in 1..Len(last'.calls)})
       => vp_kernel_cl_' = vp_kernel_cl_]_vars

\* The sum of the byte sizes of a set of buffers.
RECURSIVE SumOfSizes(_)
SumOfSizes(bufs) ==
  IF bufs = {} THEN 0
  ELSE LET b == CHOOSE x \in bufs : TRUE
       IN b.size + SumOfSizes(bufs \ {b})

\* C26: when every buffer is released by one Deallocate that is passed the
\* size the buffer was allocated with, the entry of the active context is,
\* in every state, the sum of the sizes of the live buffers as the 64-bit
\* entry holds it: the sum itself whenever the sum fits the entry, and 0
\* when no buffer is live.
C26_LedgerIsSumOfLiveBuffers ==
  (phase = "ready" /\ vp_contexts_act_cl_ # <<>>)
    => /\ ActiveRAM = SumOfSizes(buffers) % UlongMod
       /\ SumOfSizes(buffers) < UlongMod => ActiveRAM = SumOfSizes(buffers)
       /\ buffers = {} => ActiveRAM = 0

\* One of two buffers has been released: the ledger counts the other one.
C26_Witness ==
  /\ last.op = "Deallocate" /\ last.res = "ok"
  /\ Cardinality(buffers) = 1
  /\ ActiveRAM = SumOfSizes(buffers)
  /\ ActiveRAM > 0

\* Every buffer has been released: the ledger is back to 0.
C26_WitnessNoneLive ==
  /\ last.op = "Deallocate" /\ last.res = "ok"
  /\ buffers = {}
  /\ ActiveRAM = 0

\* C27: with no context active, ContextToActivate with an index greater than
\* or equal to the number of contexts raises and leaves the list of activated
\* contexts empty and the rest of the manager as it was; and whenever no
\* context is active, so also after such a failure, ContextToActivate with
\* an index below the number of contexts returns normally with that context
\* active.
C27_FailedActivationIsHarmless ==
  [][(phase = "ready" /\ vp_contexts_act_cl_ = <<>>
        /\ last'.op = "ContextToActivate")
       => IF last'.arg >= Len(vp_contexts_cl_)
          THEN /\ last'.res = "throw"
               /\ vp_contexts_act_cl_' = <<>>
               /\ UNCHANGED <<phase, managerVars, buffers>>
          ELSE /\ last'.res = "ok"
               /\ vp_contexts_act_cl_' = <<At(vp_contexts_cl_, last'.arg)>>]_vars

\* A call with the index one past the last context has failed and no
\* context is active.
C27_Witness ==
  /\ phase = "ready"
  /\ last.op = "ContextToActivate" /\ last.res = "throw"
  /\ last.err = "std::out_of_range"
  /\ vp_contexts_cl_ # <<>>
  /\ last.arg = Len(vp_contexts_cl_)
  /\ vp_contexts_act_cl_ = <<>>

\* A step of CompileKernel taken with no context active, a source file that
\* exists and at most one of the two option arguments set.
CompileKernelWithoutContext ==
  /\ phase = "ready" /\ vp_contexts_act_cl_ = <<>>
  /\ last'.op = "CompileKernel"
  /\ last'.fileExists
  /\ ~(last'.custom /\ last'.additional)

\* The call raises before any backend call, and the kernel registry and the
\* ledger are as before.
RaisesBeforeProgram ==
  /\ last'.res = "throw"
  /\ last'.calls = <<>>
  /\ vp_kernel_cl_' = vp_kernel_cl_
  /\ p_used_ram_' = p_used_ram_

\* C28: CompileKernel called with no context active, an existing source file
\* and at most one option argument set raises an error without creating or
\* building a backend program, and changes neither the kernel registry nor
\* the ledger.
C28_NoContextNoProgram ==
  [][CompileKernelWithoutContext => RaisesBeforeProgram]_vars

\* The same, for the calls whose option string fits the array it is
\* assembled in.
C28_NoContextNoProgramWhenOptionsFit ==
  [][(/\ CompileKernelWithoutContext
      /\ Fits(ResolveOptions(last'.p_custom_options,
                             last'.p_additional_options)))
       => (RaisesBeforeProgram /\ last'.err = "std::out_of_range")]_vars

\* CompileKernel went past its two checks and copied the option string into
\* kernel_compilation_option.
OptionsCopied ==
  /\ last.op = "CompileKernel"
  /\ ~(last.custom /\ last.additional)
  /\ last.fileExists /\ last.fileOpened

\* C29: the option string CompileKernel assembles (the custom options, or
\* the default options, a space and the additional options, or the default
\* options) fits the array of KernelOptionSize bytes together with its
\* terminator; a call whose string would not fit is rejected before the
\* copy.
C29_OptionsFitBuffer ==
  OptionsCopied
    => Fits(ResolveOptions(last.p_custom_options, last.p_additional_options))

\* The default options alone, whatever macros the build defines, fit the
\* array.
C29_DefaultOptionsFit ==
  (OptionsCopied /\ ~last.custom /\ ~last.additional)
    => Fits(ResolveOptions(last.p_custom_options, last.p_additional_options))

\* The number of times a resource has been released.
TimesReleased(r) == Cardinality({n \in 1..Len(freed) : freed[n] = r})

\* C30: once the manager is destroyed, every resource it acquired (each
\* array allocated in the constructor, each context, command queue, event,
\* device object and registered kernel, and the ledger array) has been
\* released exactly once.
C30_ReleasedExactlyOnce ==
  phase = "destroyed" => \A r \in Acquired : TimesReleased(r) = 1

\* Once the manager is destroyed no resource has been released twice, only
\* resources of the manager have been released, and every resource other
\* than the array of the constant buffer sizes has been released.
C30_AllButOneReleased ==
  phase = "destroyed"
    => /\ \A n \in 1..Len(freed) :
            freed[n] \in Acquired /\ TimesReleased(freed[n]) = 1
       /\ \A r \in Acquired \ {Array("p_device_constant_buffer_size_")} :
            TimesReleased(r) = 1

====
